---- MODULE Spec2Model ----
(***************************************************************************)
(* Verification model of the ssdna-hic toolkit (sshicstuff / sshic /       *)
(* hic_ssdna generations).  Each family of operations has its own          *)
(* specification over its own group of variables; the variables of the     *)
(* other groups stay parked at their idle value.                           *)
(*                                                                         *)
(*   SpecCli       command layer            (commands.py)                  *)
(*   SpecPipeline  orchestrator             (pipeline.py)                  *)
(*   SpecBins      genome binning           (binning.py, both generations) *)
(*   SpecProfile   filter, profile, rebin   (one_fragment_filter.py,       *)
(*                 and statistics            binning.py, statistics.py)    *)
(*   SpecSort      chromosome ordering      (sshic/core/utils.py)          *)
(*   SpecAssoc     oligo/fragment match     (one_fragment_filter.py)       *)
(*   SpecAgg       aggregation              (aggregated.py,                *)
(*                                           aggregate_contacts.py)        *)
(*   SpecNfr       nucleosome context       (sshic/nucleosomes.py)         *)
(*   SpecBatch     legacy batch driver      (sshic/pipeline.py, __main__)  *)
(*   SpecCompare   reference comparison     (statistics.py, compare_to_wt) *)
(*   SpecMain      legacy per-sample driver (sshic/pipeline.py, main)      *)
(*   SpecGroups    probe groups             (sshic/core/utils.py)          *)
(*   SpecPlot      dashboard, live rebin    (gui/browser.py, binning.py)   *)
(*   SpecDriver    serial / pool launch     (sshic/pipeline.py, __main__)  *)
(*                                                                         *)
(* Floating point values are modelled as exact rationals <<num, den>>;     *)
(* a rational with den = 0 stands for NaN (pandas' undefined value).       *)
(***************************************************************************)
EXTENDS Integers, Sequences, FiniteSets, TLC

VARIABLES
    \* ---- command layer (commands.py) ----
    command,        \* the subcommand whose AbstractCommand was constructed
    args,           \* self.args: docopt's option -> value dictionary
    exists,         \* the path options whose file exists (os.path.exists)
    cliPc,          \* "parsed" | "returned" | "raised"
    raised,         \* the exception execute() raised, "none" otherwise
    errlog,         \* the logger.error records, in order
    engine_calls,   \* the calls made into methods / pipeline / app, in order
    \* ---- current-generation orchestrator (pipeline.py) ----
    pipePc,                  \* position inside full_pipeline
    bin_sizes,               \* the requested rebin resolutions, in list order
    cen_aggregated_binning,  \* resolution of the profile aggregated on centromeres
    telo_agg_binning,        \* resolution of the profile aggregated on telomeres
    copy_inputs,             \* the reproducibility copy flag
    bn_idx,                  \* index of the for-loop over bin_sizes
    stage_log,               \* the engine stages invoked so far, in order
    \* ---- genome binning (binning.py, both generations) ----
    bins_coords,    \* the chromosome coordinate table: rows [chr, length]
    bins_size,      \* the bin_size argument of the last call, 0 before
    bins_gen,       \* which generation's function ran: "none" | "sshicstuff" | "sshic"
    bins_out,       \* the returned df_res: rows [chr, chr_bins, genome_bins]
    \* ---- one sample through filter, profile, rebin and statistics ----
    profPc,                 \* "inputs" | "filtered" | "profiled" | "rebinned" |
                            \* "rebinned_legacy" | "stats" | "failed"
    prof_error,             \* the exception that ended the run, "none" otherwise
    df_fragments,           \* the fragment list: rows [frag, chr, start, end, size]
    df_coords,              \* the chromosome coordinate table
    df_oligos,              \* the capture table as it stands in its file
    df_sparse,              \* the data rows of the sparse matrix
    df_contacts_filtered,   \* the filtered contacts table
    df_contacts_hic_only,   \* the Hi-C only matrix: header counters and rows
    df_unbinned,            \* the unbinned contacts profile
    df_frequencies,         \* the unbinned frequencies profile
    rebin_size,             \* the bin size of the last rebin
    df_binned_contacts,     \* the binned contacts table
    df_binned_freq,         \* the binned frequencies table
    cis_range,              \* the cis range of the last statistics run
    df_stats,               \* the statistics table
    \* ---- one call of sort_by_chr ----
    sortPc,         \* "call" | "returned" | "raised"
    sort_df,        \* the 'chr' column of the table handed in
    sort_out,       \* the 'chr' column of the table returned
    sort_error,     \* the exception raised, "none" otherwise
    \* ---- the association of one probe to its fragment ----
    assocPc,          \* "call" | "returned"
    assoc_fragments,  \* df_fragments
    assoc_oligo,      \* the row of df_oligos
    assoc_result,     \* the row with fragment, fragment_start, fragment_end
    \* ---- one aggregation around centromeres or telomeres ----
    aggPc,               \* "call" | "written" | "written_legacy" | "returned" | "raised"
    agg_error,           \* the exception raised, "none" otherwise
    agg_contacts,        \* the binned profile read from binned_contacts_path
    agg_centros,         \* the centromere coordinate table
    agg_probes,          \* the capture table: rows [name, fragment, chr_ori]
    agg_opts,            \* the options of the call
    df_grouped,          \* the per chromosome, per offset table
    df_aggregated_mean,  \* the aggregated mean table
    agg_pivots,          \* the fragments a per-chromosome table was written for
    df_by_arm,           \* the aggregated_by_arm_sizes table
    \* ---- one call of get_nfr_contacts (nucleosomes.py) ----
    nfrPc,                 \* "call" | "returned"
    nfr_fragments,         \* the fragment list file: rows [chrom, start_pos, end_pos]
    nfr_nucleosomes,       \* the nucleosome file: rows [chrom, start, end]
    filter_mode,           \* the filter_mode argument
    df_fragments_in_nfr,   \* the index (uid) column of the 'in' list, in row order
    df_fragments_out_nfr,  \* the index (uid) column of the 'out' list, in row order
    \* ---- the legacy batch driver with its worker pool (sshic/pipeline.py) ----
    batchPc,         \* "start" | "pool" | "done"
    samples_dir,     \* the file names found in args.samples_dir
    my_samples,      \* the sample files not yet handed to a worker
    worker_pc,       \* per worker: "idle" | "main" | "written"
    worker_sample,   \* per worker: the sample file its main() was called with
    dir_writers,     \* per output directory name: the sample files written into it
    \* ---- one call of compare_to_wt (core/statistics.py) ----
    cmpPc,        \* "call" | "returned" | "raised"
    cmp_error,    \* the exception raised, "none" otherwise
    cmp_stats,    \* the table read from statistics_path: rows [probe, eff]
    cmp_wt,       \* the table read from reference_path: rows [probe, eff]
    cmp_written,  \* the rows written back to statistics_path: [probe, eff, vs_wt]
    \* ---- one run of the legacy per-sample driver (sshic/pipeline.py, main) ----
    mainPc,              \* position inside main()
    main_files,          \* the output files that exist when main() is entered
    binning_size_list,   \* the rebin resolutions, in list order
    main_idx,            \* index of the for-loop over binning_size_list
    main_log,            \* the stages called so far, in order
    \* ---- probe groups through profile, rebin and aggregate ----
    grpPc,            \* "contacts" | "profiled" | "rebinned" | "aggregated" | "raised"
    grp_error,        \* the exception raised, "none" otherwise
    df_additional,    \* the group file: rows [name, probes, action]
    grp_table,        \* the table on disk: column name -> the column's cells
    plotPc,               \* dashboard: "idle", "ready", "no_plot", "plotted", "compared"
    plot_coords,          \* the coordinate table chosen in the dashboard
    df_samples,           \* the unbinned profile chosen in the dashboard
    plot_in,              \* binning_value, probes_value, region_value, start_pos, end_pos
    plot_df,              \* df after the region and coordinate filters
    plot_binned,          \* df as plotted (after rebin_live when binning_value > 0)
    batch_binned,         \* rebin_contacts' binned contacts table for df_samples
    drv_args,             \* legacy driver: the parsed command line (but --threads)
    drv_samples,          \* my_samples, in listing order
    serial_idx,           \* the run with --threads 1: position of the for loop
    serial_calls,         \* ... the parameters main() ran with, per sample
    pool_pc,              \* the run with --threads 2: "idle", "start", "joined"
    pool_calls            \* ... the parameters main() ran with, per sample

cliVars == <<command, args, exists, cliPc, raised, errlog, engine_calls>>

pipeVars == <<pipePc, bin_sizes, cen_aggregated_binning, telo_agg_binning,
              copy_inputs, bn_idx, stage_log>>

binsVars == <<bins_coords, bins_size, bins_gen, bins_out>>

profVars == <<profPc, prof_error, df_fragments, df_coords, df_oligos, df_sparse,
              df_contacts_filtered, df_contacts_hic_only, df_unbinned, df_frequencies,
              rebin_size, df_binned_contacts, df_binned_freq, cis_range, df_stats>>

sortVars == <<sortPc, sort_df, sort_out, sort_error>>

assocVars == <<assocPc, assoc_fragments, assoc_oligo, assoc_result>>

aggVars == <<aggPc, agg_error, agg_contacts, agg_centros, agg_probes, agg_opts,
             df_grouped, df_aggregated_mean, agg_pivots, df_by_arm>>

nfrVars == <<nfrPc, nfr_fragments, nfr_nucleosomes, filter_mode, df_fragments_in_nfr,
             df_fragments_out_nfr>>

batchVars == <<batchPc, samples_dir, my_samples, worker_pc, worker_sample, dir_writers>>

cmpVars == <<cmpPc, cmp_error, cmp_stats, cmp_wt, cmp_written>>

mainVars == <<mainPc, main_files, binning_size_list, main_idx, main_log>>

grpVars == <<grpPc, grp_error, df_additional, grp_table>>

plotVars == <<plotPc, plot_coords, df_samples, plot_in, plot_df, plot_binned,
              batch_binned>>

drvVars == <<drv_args, drv_samples, serial_idx, serial_calls, pool_pc, pool_calls>>

vars == <<cliVars, pipeVars, binsVars, profVars, sortVars, assocVars, aggVars, nfrVars,
          batchVars, cmpVars, mainVars, grpVars, plotVars, drvVars>>

None == "None"

(***************************************************************************)
(* Generic helpers                                                         *)
(***************************************************************************)
Range(s) == {s[i] : i \in DOMAIN s}

(***************************************************************************)
(* Exact arithmetic standing for the floating point columns                *)
(***************************************************************************)
Abs(x) == IF x < 0 THEN -x ELSE x

RECURSIVE GCD(_, _)
GCD(a, b) == IF b = 0 THEN a ELSE GCD(b, a % b)

\* np.nan: the undefined value (0/0, or a masked cell).
NaN == <<0, 0>>

IsNaN(r) == r[2] = 0

\* The rational n/d in lowest terms with a positive denominator; x/0 is
\* kept as the undefined value.
Rat(n, d) ==
    IF d = 0 THEN NaN
    ELSE LET g == GCD(Abs(n), Abs(d))
             sgn == IF d < 0 THEN -1 ELSE 1
         IN <<(sgn * n) \div g, Abs(d) \div g>>

RInt(n) == <<n, 1>>

RAdd(a, b) == IF IsNaN(a) \/ IsNaN(b) THEN NaN ELSE Rat(a[1] * b[2] + b[1] * a[2], a[2] * b[2])

RSub(a, b) == IF IsNaN(a) \/ IsNaN(b) THEN NaN ELSE Rat(a[1] * b[2] - b[1] * a[2], a[2] * b[2])

RMul(a, b) == IF IsNaN(a) \/ IsNaN(b) THEN NaN ELSE Rat(a[1] * b[1], a[2] * b[2])

RDiv(a, b) == IF IsNaN(a) \/ IsNaN(b) THEN NaN ELSE Rat(a[1] * b[2], a[2] * b[1])

RPos(a) == ~IsNaN(a) /\ a[1] > 0

\* Series.sum(): the sum of a sequence of cells, undefined cells skipped.
RSum(cells) ==
    LET RECURSIVE S(_)
        S(i) == IF i > Len(cells) THEN RInt(0)
                ELSE IF IsNaN(cells[i]) THEN S(i + 1)
                ELSE RAdd(cells[i], S(i + 1))
    IN S(1)

\* Series.mean(): the mean of the defined cells, undefined when there is none.
RMean(cells) ==
    LET defined == SelectSeq(cells, LAMBDA c : ~IsNaN(c))
    IN IF defined = <<>> THEN NaN ELSE RDiv(RSum(defined), RInt(Len(defined)))

\* Concatenation of the sequences f(s[1]), ..., f(s[n]).
FlatMap(s, f(_)) ==
    LET RECURSIVE F(_)
        F(i) == IF i > Len(s) THEN <<>> ELSE f(s[i]) \o F(i + 1)
    IN F(1)

(***************************************************************************)
(* Command layer                                                           *)
(***************************************************************************)
Commands == {"subsample", "genomaker", "associate", "hiconly", "filter",
             "coverage", "profile", "rebin", "stats", "aggregate", "compare",
             "view", "plot", "pipeline"}

\* The path options each execute() hands to check_exists, in call order.
CheckedPaths(cmd) ==
    CASE cmd = "subsample" -> <<"--input">>
      [] cmd = "genomaker" -> <<"--oligo-annealing", "--genome">>
      [] cmd = "associate" -> <<"--oligo-capture", "--fragments">>
      [] cmd = "hiconly"   -> <<"--sparse-matrix", "--oligos-capture">>
      [] cmd = "filter"    -> <<"--fragments", "--oligos-capture", "--sparse-matrix">>
      [] cmd = "coverage"  -> <<"--fragments", "--sparse-mat">>
      [] cmd = "profile"   -> <<"--filtered-table", "--oligo-capture", "--chr-coord">>
      [] cmd = "rebin"     -> <<"--profile", "--chr-coord">>
      [] cmd = "stats"     -> <<"--profile", "--sparse-mat", "--chr-coord", "--oligo-capture">>
      [] cmd = "aggregate" -> <<"--profile", "--chr-coord", "--oligo-capture">>
      [] cmd = "compare"   -> <<"--sample-stats", "--reference-stats">>
      [] cmd = "plot"      -> <<"--profile", "--chr-coord", "--oligo-capture">>
      [] cmd = "pipeline"  -> <<"--sparse-matrix", "--oligo-capture", "--fragments", "--chr-coord">>
      [] OTHER             -> <<>>

\* Options without a docopt default that execute() converts with int():
\* absent on the command line they are None.
OptionalInts(cmd) ==
    CASE cmd = "plot"     -> {"--width", "--height"}
      [] cmd = "pipeline" -> {"--binning-aggregate-cen", "--binning-aggregate-telo"}
      [] OTHER            -> {}

\* Boolean switches execute() branches on.
Switches(cmd) == IF cmd = "aggregate" THEN {"--cen", "--tel"} ELSE {}

\* The dictionaries docopt can return for a subcommand (the part execute
\* reads): opts holds the valued options, flags the boolean switches.
ArgsOf(cmd) ==
    LET P == Range(CheckedPaths(cmd))
        O == OptionalInts(cmd)
    IN {a \in [opts : [P \cup O -> P \cup {None, "int"}], flags : [Switches(cmd) -> BOOLEAN]] :
          /\ \A o \in P : a.opts[o] = o
          /\ \A o \in O : a.opts[o] \in {None, "int"}}

\* check_exists(*args): the loop returns at the first path that exists and
\* raises at the first path that does not, so only args[0] is ever tested.
check_exists(paths, ex) ==
    IF paths = <<>> THEN "returned"
    ELSE IF Head(paths) \in ex THEN "returned" ELSE "FileNotFoundError"

\* int(x): TypeError on None.
IntFails(a, opts) == \E o \in opts : a.opts[o] = None

\* A mode test that rejects only the two flags together.
cen_tel_conflict_both_only(cen, tel) == cen /\ tel

\* Aggregate.execute line 389: the mode test.
cen_tel_conflict(cen, tel) == cen = tel

notCli == <<pipeVars, binsVars, profVars, sortVars, assocVars, aggVars, nfrVars,
            batchVars, cmpVars, mainVars, grpVars, plotVars, drvVars>>

Raise(exc, logs) ==
    /\ cliPc' = "raised"
    /\ raised' = exc
    /\ errlog' = errlog \o logs
    /\ UNCHANGED <<command, args, exists, engine_calls>>
    /\ UNCHANGED notCli

Delegate(call) ==
    /\ cliPc' = "returned"
    /\ engine_calls' = Append(engine_calls, call)
    /\ UNCHANGED <<command, args, exists, raised, errlog>>
    /\ UNCHANGED notCli

\* The body shared by the execute() methods that only check and delegate.
CheckThenCall(cmd, fn) ==
    /\ cliPc = "parsed"
    /\ IF check_exists(CheckedPaths(cmd), exists) = "FileNotFoundError"
       THEN Raise("FileNotFoundError", <<"File does not exist">>)
       ELSE IF IntFails(args, OptionalInts(cmd))
            THEN Raise("TypeError", <<>>)
            ELSE Delegate([fn |-> fn, telomeres |-> FALSE, centromeres |-> FALSE])

SubsampleExecute ==
    /\ command = "subsample"
    /\ CheckThenCall("subsample", "methods.subsample")
GenomakerExecute ==
    /\ command = "genomaker"
    /\ CheckThenCall("genomaker", "methods.edit_genome_ref")
AssociateExecute ==
    /\ command = "associate"
    /\ CheckThenCall("associate", "methods.associate_oligo_to_frag")
HiconlyExecute ==
    /\ command = "hiconly"
    /\ CheckThenCall("hiconly", "methods.hic_only")
FilterExecute ==
    /\ command = "filter"
    /\ CheckThenCall("filter", "methods.filter_contacts")
CoverageExecute ==
    /\ command = "coverage"
    /\ CheckThenCall("coverage", "methods.coverage")
ProfileExecute ==
    /\ command = "profile"
    /\ CheckThenCall("profile", "methods.profile_contacts")
RebinExecute ==
    /\ command = "rebin"
    /\ CheckThenCall("rebin", "methods.rebin_profile")
StatsExecute ==
    /\ command = "stats"
    /\ CheckThenCall("stats", "methods.get_stats")
CompareExecute ==
    /\ command = "compare"
    /\ CheckThenCall("compare", "methods.compare_with_wt")
PlotExecute ==
    /\ command = "plot"
    /\ CheckThenCall("plot", "methods.plot_profiles")
PipelineExecute ==
    /\ command = "pipeline"
    /\ CheckThenCall("pipeline", "pip.full_pipeline")

AggregateExecute ==
    /\ cliPc = "parsed"
    /\ command = "aggregate"
    /\ IF check_exists(CheckedPaths("aggregate"), exists) = "FileNotFoundError"
       THEN Raise("FileNotFoundError", <<"File does not exist">>)
       ELSE IF cen_tel_conflict(args.flags["--cen"], args.flags["--tel"])
            THEN Raise("ValueError", <<"You must specify either telomeres or centromeres. Not both",
                                       "Exiting...">>)
            ELSE Delegate([fn |-> "methods.aggregate",
                           telomeres |-> args.flags["--tel"],
                           centromeres |-> args.flags["--cen"]])

ViewExecute ==
    /\ cliPc = "parsed"
    /\ command = "view"
    /\ Delegate([fn |-> "app.run_server", telomeres |-> FALSE, centromeres |-> FALSE])

CliInit ==
    /\ command \in Commands
    /\ args \in ArgsOf(command)
    /\ exists \in SUBSET Range(CheckedPaths(command))
    /\ cliPc = "parsed"
    /\ raised = "none"
    /\ errlog = <<>>
    /\ engine_calls = <<>>

CliIdle ==
    /\ command = "view"
    /\ args = [opts |-> <<>>, flags |-> <<>>]
    /\ exists = {}
    /\ cliPc = "idle"
    /\ raised = "none"
    /\ errlog = <<>>
    /\ engine_calls = <<>>

(***************************************************************************)
(* Current-generation orchestrator: full_pipeline                          *)
(***************************************************************************)
MaxBinList == 2

\* The resolutions a caller may list: whole and fractional numbers of kb,
\* one of them below 1 kb.
BinSizeChoices == {500, 1000, 1500, 2000, 10000}

\* bin_suffix = f'{bin_size // 1000}kb': the number in the name of the
\* files a rebin at bin_size writes.
bin_suffix(bin_size) == bin_size \div 1000

\* The number in the name of the unbinned profile, "_0kb_profile_".
profile_0kb_suffix == 0

BinLists == UNION {[1..n -> BinSizeChoices] : n \in 0..MaxBinList}

notPipe == <<cliVars, binsVars, profVars, sortVars, assocVars, aggVars, nfrVars,
             batchVars, cmpVars, mainVars, grpVars, plotVars, drvVars>>

Stage(name, bn) == [stage |-> name, bin |-> bn]

\* One engine call of full_pipeline: runs at position `at`, records the
\* stage and moves to position `to`.
PipeCall(at, name, bn, to) ==
    /\ pipePc = at
    /\ stage_log' = Append(stage_log, Stage(name, bn))
    /\ pipePc' = to
    /\ UNCHANGED <<bin_sizes, cen_aggregated_binning, telo_agg_binning, copy_inputs, bn_idx>>
    /\ UNCHANGED notPipe

\* Position after the statistics stage and after each loop round: the
\* for-loop over bin_sizes either enters its next round or falls through.
LoopPc(i) == IF i <= Len(bin_sizes) THEN "rebin_contacts" ELSE "aggregate_cen"

PipeAssociate ==
    /\ pipePc = "start"
    /\ PipeCall("start", "associate_oligo_to_frag", 0, "dsdna_only")
PipeDsdnaOnly ==
    /\ pipePc = "dsdna_only"
    /\ PipeCall("dsdna_only", "sparse_with_dsdna_only", 0, "coverage_dsdna")
PipeCoverageDsdna ==
    /\ pipePc = "coverage_dsdna"
    /\ PipeCall("coverage_dsdna", "coverage_dsdna", 0, "ssdna_only")
PipeSsdnaOnly ==
    /\ pipePc = "ssdna_only"
    /\ PipeCall("ssdna_only", "sparse_with_ssdna_only", 0, "coverage_ssdna")
PipeCoverageSsdna ==
    /\ pipePc = "coverage_ssdna"
    /\ PipeCall("coverage_ssdna", "coverage_ssdna", 0, "filter")
PipeFilter ==
    /\ pipePc = "filter"
    /\ PipeCall("filter", "filter_contacts", 0, "coverage_all")
PipeCoverageAll ==
    /\ pipePc = "coverage_all"
    /\ PipeCall("coverage_all", "coverage_all", 0, "profile")
PipeProfile ==
    /\ pipePc = "profile"
    /\ PipeCall("profile", "profile_contacts", 0, "stats")
PipeStats ==
    /\ pipePc = "stats"
    /\ PipeCall("stats", "get_stats", 0, LoopPc(1))

\* A loop body that rebins the frequencies profile first.
PipeRebinFrequenciesFirst ==
    /\ bn_idx \in DOMAIN bin_sizes
    /\ PipeCall("rebin_contacts", "rebin_frequencies", bin_sizes[bn_idx], "rebin_frequencies")

PipeRebinContacts ==
    /\ bn_idx \in DOMAIN bin_sizes
    /\ PipeCall("rebin_contacts", "rebin_contacts", bin_sizes[bn_idx], "rebin_frequencies")

PipeRebinFrequencies ==
    /\ pipePc = "rebin_frequencies"
    /\ stage_log' = Append(stage_log, Stage("rebin_frequencies", bin_sizes[bn_idx]))
    /\ bn_idx' = bn_idx + 1
    /\ pipePc' = LoopPc(bn_idx + 1)
    /\ UNCHANGED <<bin_sizes, cen_aggregated_binning, telo_agg_binning, copy_inputs>>
    /\ UNCHANGED notPipe

PipeAggregateCen ==
    /\ pipePc = "aggregate_cen"
    /\ PipeCall("aggregate_cen", "aggregate_centromeres", cen_aggregated_binning, "aggregate_telo")

PipeAggregateTelo ==
    /\ pipePc = "aggregate_telo"
    /\ PipeCall("aggregate_telo", "aggregate_telomeres", telo_agg_binning, "done")

PipeInit ==
    /\ pipePc = "start"
    /\ bin_sizes \in BinLists
    /\ cen_aggregated_binning \in BinSizeChoices
    /\ telo_agg_binning \in BinSizeChoices
    /\ copy_inputs \in BOOLEAN
    /\ bn_idx = 1
    /\ stage_log = <<>>

PipeIdle ==
    /\ pipePc = "idle"
    /\ bin_sizes = <<>>
    /\ cen_aggregated_binning = 0
    /\ telo_agg_binning = 0
    /\ copy_inputs = FALSE
    /\ bn_idx = 0
    /\ stage_log = <<>>

(***************************************************************************)
(* Genome binning engine: build_bins_from_genome                           *)
(***************************************************************************)
MaxChr == 2

MaxLength == 6

MaxBinSize == 3

ChrNames == {"chr1", "chr2", "chr3"}

notBins == <<cliVars, pipeVars, profVars, sortVars, assocVars, aggVars, nfrVars,
             batchVars, cmpVars, mainVars, grpVars, plotVars, drvVars>>

notProf == <<cliVars, pipeVars, binsVars, sortVars, assocVars, aggVars, nfrVars,
             batchVars, cmpVars, mainVars, grpVars, plotVars, drvVars>>

notSort == <<cliVars, pipeVars, binsVars, profVars, assocVars, aggVars, nfrVars,
             batchVars, cmpVars, mainVars, grpVars, plotVars, drvVars>>

notAssoc == <<cliVars, pipeVars, binsVars, profVars, sortVars, aggVars, nfrVars,
              batchVars, cmpVars, mainVars, grpVars, plotVars, drvVars>>

notAgg == <<cliVars, pipeVars, binsVars, profVars, sortVars, assocVars, nfrVars,
            batchVars, cmpVars, mainVars, grpVars, plotVars, drvVars>>

notNfr == <<cliVars, pipeVars, binsVars, profVars, sortVars, assocVars, aggVars,
            batchVars, cmpVars, mainVars, grpVars, plotVars, drvVars>>

notBatch == <<cliVars, pipeVars, binsVars, profVars, sortVars, assocVars, aggVars,
              nfrVars, cmpVars, mainVars, grpVars, plotVars, drvVars>>

notCmp == <<cliVars, pipeVars, binsVars, profVars, sortVars, assocVars, aggVars,
            nfrVars, batchVars, mainVars, grpVars, plotVars, drvVars>>

notMain == <<cliVars, pipeVars, binsVars, profVars, sortVars, assocVars, aggVars,
             nfrVars, batchVars, cmpVars, grpVars, plotVars, drvVars>>

notGrp == <<cliVars, pipeVars, binsVars, profVars, sortVars, assocVars, aggVars,
            nfrVars, batchVars, cmpVars, mainVars, plotVars, drvVars>>

notPlot == <<cliVars, pipeVars, binsVars, profVars, sortVars, assocVars, aggVars,
             nfrVars, batchVars, cmpVars, mainVars, grpVars, drvVars>>

notDrv == <<cliVars, pipeVars, binsVars, profVars, sortVars, assocVars, aggVars,
            nfrVars, batchVars, cmpVars, mainVars, grpVars, plotVars>>

\* The coordinate tables: up to MaxChr rows, one per chromosome.
CoordTables ==
    {t \in UNION {[1..n -> [chr : ChrNames, length : 1..MaxLength]] : n \in 1..MaxChr} :
        \A i, j \in DOMAIN t : t[i].chr = t[j].chr => i = j}

\* dict(zip(df.chr, df.length)): keys in order of first occurrence, each
\* with the length of its last occurrence.
chr_sizes_keys(coords) ==
    LET RECURSIVE K(_)
        K(i) == IF i > Len(coords) THEN <<>>
                ELSE IF \E j \in 1..(i - 1) : coords[j].chr = coords[i].chr
                     THEN K(i + 1)
                     ELSE <<coords[i].chr>> \o K(i + 1)
    IN K(1)

chr_sizes_value(coords, c) ==
    LET last == CHOOSE i \in DOMAIN coords :
                    /\ coords[i].chr = c
                    /\ \A j \in DOMAIN coords : coords[j].chr = c => j <= i
    IN coords[last].length

\* np.arange(0, stop, step) as a sequence.
arange(stop, step) ==
    LET RECURSIVE A(_)
        A(x) == IF x >= stop THEN <<>> ELSE <<x>> \o A(x + step)
    IN A(0)

\* A bin count without the last, partial bin.
n_bins_without_last(l, bin_size) == l \div bin_size

\* l // bin_size + 1, the number of bins of a chromosome of length l.
n_bins(l, bin_size) == l \div bin_size + 1

n_bins_legacy(l, bin_size) == l \div bin_size + 1

\* The concatenated (chr, chr_bins) columns, then the genome_bins column
\* numbered 0, bin_size, 2*bin_size, ... over the whole table.
bins_concat(coords, bin_size, nb(_, _)) ==
    LET keys == chr_sizes_keys(coords)
        RECURSIVE C(_)
        C(k) == IF k > Len(keys) THEN <<>>
                ELSE LET l  == chr_sizes_value(coords, keys[k])
                         bs == arange(nb(l, bin_size) * bin_size, bin_size)
                     IN [i \in 1..Len(bs) |-> [chr |-> keys[k], chr_bins |-> bs[i]]] \o C(k + 1)
        rows == C(1)
        gb   == arange(Len(rows) * bin_size, bin_size)
    IN [i \in 1..Len(rows) |->
           [chr |-> rows[i].chr, chr_bins |-> rows[i].chr_bins, genome_bins |-> gb[i]]]

build_bins_from_genome(coords, bin_size) == bins_concat(coords, bin_size, n_bins)

build_bins_from_genome_legacy(coords, bin_size) == bins_concat(coords, bin_size, n_bins_legacy)

BuildBins ==
    /\ bins_gen = "none"
    /\ \E b \in 1..MaxBinSize :
          /\ bins_size' = b
          /\ bins_out' = build_bins_from_genome(bins_coords, b)
    /\ bins_gen' = "sshicstuff"
    /\ UNCHANGED bins_coords
    /\ UNCHANGED notBins

BuildBinsLegacy ==
    /\ bins_gen = "none"
    /\ \E b \in 1..MaxBinSize :
          /\ bins_size' = b
          /\ bins_out' = build_bins_from_genome_legacy(bins_coords, b)
    /\ bins_gen' = "sshic"
    /\ UNCHANGED bins_coords
    /\ UNCHANGED notBins

BinsInit ==
    /\ bins_coords \in CoordTables
    /\ bins_size = 0
    /\ bins_gen = "none"
    /\ bins_out = <<>>

BinsIdle ==
    /\ bins_coords = <<>>
    /\ bins_size = 0
    /\ bins_gen = "idle"
    /\ bins_out = <<>>

(***************************************************************************)
(* Contact filtering: filter_contacts (one_fragment_filter.py)             *)
(***************************************************************************)
MaxRows == 2

MaxCount == 1

\* A cell of a column the table does not (yet) carry.
NoColumn == -1

\* The digested genome the chain runs on: two chromosomes cut in four
\* fragments (fragment ids are row positions, starting at 0).
FragmentsFixture ==
    <<[frag |-> 0, chr |-> "chr1", start |-> 0,  end |-> 20, size |-> 20],
      [frag |-> 1, chr |-> "chr1", start |-> 20, end |-> 50, size |-> 30],
      [frag |-> 2, chr |-> "chr1", start |-> 50, end |-> 60, size |-> 10],
      [frag |-> 3, chr |-> "chr2", start |-> 0,  end |-> 40, size |-> 40]>>

CoordsFixture ==
    <<[chr |-> "chr1", length |-> 60], [chr |-> "chr2", length |-> 40]>>

Oligo(c, s, e, t, n) ==
    [chr |-> c, start |-> s, end |-> e, type |-> t, name |-> n,
     fragment |-> NoColumn, fragment_start |-> NoColumn, fragment_end |-> NoColumn]

\* The capture tables: one ss and one ds probe; the ss probe inside a
\* fragment, ending on a fragment border or straddling one (the two probes
\* may sit on the same fragment).
OligoTables ==
    {<<Oligo("chr1", s1[1], s1[2], "ss", "Probe_ss"), Oligo(s2[1], s2[2], s2[3], "ds", "Probe_ds")>> :
        s1 \in {<<24, 28>>, <<18, 22>>, <<19, 23>>},
        s2 \in {<<"chr2", 4, 8>>, <<"chr1", 30, 34>>}}

FragIds == {FragmentsFixture[i].frag : i \in DOMAIN FragmentsFixture}

SparseRows == [frag_a : FragIds, frag_b : FragIds, contacts : 1..MaxCount]

RowBefore(r, q) == r.frag_a < q.frag_a \/ (r.frag_a = q.frag_a /\ r.frag_b < q.frag_b)

\* The sparse matrices: upper triangular, one row per fragment pair, rows
\* in (frag_a, frag_b) order.
SparseMatrices ==
    {m \in UNION {[1..n -> SparseRows] : n \in 0..MaxRows} :
        /\ \A i \in DOMAIN m : m[i].frag_a <= m[i].frag_b
        /\ \A i \in DOMAIN m : i > 1 => RowBefore(m[i - 1], m[i])}

\* int(x / 2) for an integer x: truncation towards zero.
IntHalf(x) == IF x >= 0 THEN x \div 2 ELSE -((-x) \div 2)

\* np.searchsorted(sorted, v, side="left"): the number of elements < v.
searchsorted_left(sorted, v) == Cardinality({i \in DOMAIN sorted : sorted[i] < v})

\* Lines 172-187: the fragment associated to one oligo row.  idx - 1 is a
\* Python index: -1 (idx = 0) is the last element.  (The caller has made
\* sure the chromosome has a fragment; sorted[-1] is an IndexError else.)
associate_row(fragments, o) ==
    LET sub     == SelectSeq(fragments, LAMBDA f : f.chr = o.chr)
        sorted  == SortSeq([i \in DOMAIN sub |-> sub[i].start], LAMBDA x, y : x < y)
        probe_middle == IntHalf(2 * o.start + (o.end - o.start))
        idx     == searchsorted_left(sorted, probe_middle)
        pos     == IF idx = 0 THEN Len(sorted) ELSE idx
        nearest == sorted[pos]
        first   == CHOOSE i \in DOMAIN sub :
                       /\ sub[i].start = nearest
                       /\ \A j \in 1..(i - 1) : sub[j].start # nearest
    IN [o EXCEPT !.fragment = sub[first].frag,
          !.fragment_start = sub[first].start,
          !.fragment_end = sub[first].end]

has_fragment_column(oligos) == \A i \in DOMAIN oligos : oligos[i].fragment # NoColumn

\* Lines 166-193: the oligo table written back to oligos_path.
associated_oligos(fragments, oligos) ==
    IF has_fragment_column(oligos) THEN oligos
    ELSE [i \in DOMAIN oligos |-> associate_row(fragments, oligos[i])]

\* starts_match: the start of the first fragment (the last one, with an open
\* interval, on chr_artificial) whose interval holds the oligo's middle;
\* nothing is appended for an oligo no fragment holds.
starts_match_row(fragments, o) ==
    LET middle == IntHalf((o.end - o.start - 1) + 2 * (o.start - 1))
        hits == IF o.chr = "chr_artificial"
                THEN {k \in DOMAIN fragments :
                        /\ fragments[k].start <= middle /\ middle < fragments[k].end
                        /\ fragments[k].chr = o.chr}
                ELSE {k \in DOMAIN fragments :
                        /\ fragments[k].start <= middle /\ middle <= fragments[k].end
                        /\ fragments[k].chr = o.chr}
        k0 == IF o.chr = "chr_artificial"
              THEN CHOOSE k \in hits : \A j \in hits : j <= k
              ELSE CHOOSE k \in hits : \A j \in hits : k <= j
    IN IF hits = {} THEN <<>> ELSE <<fragments[k0].start>>

starts_match(fragments, oligos) == FlatMap(oligos, LAMBDA o : starts_match_row(fragments, o))

\* oligos_fragments_joining: fragments.merge(oligos, on=['chr', 'start'])
\* after the oligo starts were replaced by starts_match.
oligos_fragments_joining(fragments, oligos) ==
    LET l_starts == starts_match(fragments, oligos)
        moved == [i \in DOMAIN oligos |-> [oligos[i] EXCEPT !.start = l_starts[i]]]
        match(f) == LET os == SelectSeq(moved, LAMBDA o : o.chr = f.chr /\ o.start = f.start)
                    IN [j \in DOMAIN os |->
                           [frag |-> f.frag, chr |-> f.chr, start |-> f.start, end |-> f.end,
                            size |-> f.size, type |-> os[j].type, name |-> os[j].name]]
    IN FlatMap(fragments, match)

\* A join that keeps only the matches on end a.
second_join_end_a_only(x, fragments, of, c) ==
    LET y  == fragments[c.frag_b + 1]
        ps == SelectSeq(of, LAMBDA o : o.frag = c.frag_a)
        row(o) ==
            [frag_a |-> c.frag_a, frag_b |-> c.frag_b, contacts |-> c.contacts,
             chr_a |-> o.chr, start_a |-> o.start, size_a |-> o.size,
             chr_b |-> y.chr, start_b |-> y.start, size_b |-> y.size,
             name_a |-> o.name, type_a |-> o.type, name_b |-> "NaN", type_b |-> "NaN"]
    IN IF x = "a" THEN [j \in DOMAIN ps |-> row(ps[j])] ELSE <<>>

\* second_join(x, ...): the contact rows whose end x is a fragment of
\* oligos_fragments, with that probe's name and type under suffix x and the
\* fragment columns of both ends; the probe columns of the other end are
\* missing (NaN after the concatenation).
second_join(x, fragments, of, c) ==
    LET fx == IF x = "a" THEN c.frag_a ELSE c.frag_b
        fy == IF x = "a" THEN c.frag_b ELSE c.frag_a
        y  == fragments[fy + 1]
        ps == SelectSeq(of, LAMBDA o : o.frag = fx)
        row(o) ==
            IF x = "a"
            THEN [frag_a |-> c.frag_a, frag_b |-> c.frag_b, contacts |-> c.contacts,
                  chr_a |-> o.chr, start_a |-> o.start, size_a |-> o.size,
                  chr_b |-> y.chr, start_b |-> y.start, size_b |-> y.size,
                  name_a |-> o.name, type_a |-> o.type, name_b |-> "NaN", type_b |-> "NaN"]
            ELSE [frag_a |-> c.frag_a, frag_b |-> c.frag_b, contacts |-> c.contacts,
                  chr_a |-> y.chr, start_a |-> y.start, size_a |-> y.size,
                  chr_b |-> o.chr, start_b |-> o.start, size_b |-> o.size,
                  name_a |-> "NaN", type_a |-> "NaN", name_b |-> o.name, type_b |-> o.type]
    IN [j \in DOMAIN ps |-> row(ps[j])]

\* Lines 208-214: both joins concatenated and sorted by (frag_a, frag_b,
\* start_a, start_b); the sparse rows are already in that order, so each
\* row's matches on end a are followed by its matches on end b.
contacts_filtered(fragments, oligos, contacts) ==
    LET of == oligos_fragments_joining(fragments, oligos)
    IN FlatMap(contacts, LAMBDA c : second_join("a", fragments, of, c)
                                    \o second_join("b", fragments, of, c))

\* Lines 224-236: the sparse matrix without the rows that touch a fragment
\* of the oligo table's fragment column, and its header counters.  (The
\* header row holds the fragment count, which is no fragment id.)
contacts_hic_only(fragments, oligos, contacts) ==
    LET foi  == {oligos[i].fragment : i \in DOMAIN oligos}
        kept == SelectSeq(contacts, LAMBDA c : c.frag_a \notin foi /\ c.frag_b \notin foi)
        n    == Len(fragments)
    IN [header |-> <<n - Cardinality(foi), n - Cardinality(foi),
                     Len(contacts) - (Len(contacts) - Len(kept))>>,
        rows |-> kept]

(***************************************************************************)
(* Profile engine: profile_contacts, rebin_contacts (binning.py)           *)
(***************************************************************************)
BinUnit == 10

\* The bin sizes the chain is run with.
BinSizes == {b * BinUnit : b \in 1..MaxBinSize}

\* Position of a chromosome in the order of the coordinate table; a
\* chromosome the table does not list comes after all listed ones.
chr_rank(chr_list, c) ==
    IF \E i \in DOMAIN chr_list : chr_list[i] = c
    THEN CHOOSE i \in DOMAIN chr_list : chr_list[i] = c
    ELSE Len(chr_list) + 1

\* sort_by_chr(df, chr_list, 'chr', 'start') on the (chr, start, sizes)
\* keys the groupby produced.
KeyBefore(chr_list, k, q) ==
    \/ chr_rank(chr_list, k[1]) < chr_rank(chr_list, q[1])
    \/ chr_rank(chr_list, k[1]) = chr_rank(chr_list, q[1]) /\ k[2] < q[2]
    \/ chr_rank(chr_list, k[1]) = chr_rank(chr_list, q[1]) /\ k[2] = q[2] /\ k[3] < q[3]

\* The keys of S as the sort leaves them.
RECURSIVE SortKeys(_, _)
SortKeys(chr_list, S) ==
    IF S = {} THEN <<>>
    ELSE LET m == CHOOSE x \in S : \A y \in S \ {x} : KeyBefore(chr_list, x, y)
         IN <<m>> \o SortKeys(chr_list, S \ {m})

\* fragments = df_probes['fragment'] (one entry per probe, in table order).
fragments_of(oligos) == [i \in DOMAIN oligos |-> oligos[i].fragment]

\* The column a fragment id names after the rename and the removal of
\* duplicated column names: the column of the first probe on that fragment.
probe_of_column(oligos, f) ==
    oligos[CHOOSE i \in DOMAIN oligos :
               oligos[i].fragment = f /\ \A j \in 1..(i - 1) : oligos[j].fragment # f].name

\* Lines 202-222: what a filtered row adds to the column of `probe` at the
\* location `key` -- through its end a (the location is end b) and through
\* its end b (the location is end a).
row_contribution(r, probe, key) ==
    (IF r.name_a = probe /\ <<r.chr_b, r.start_b, r.size_b>> = key THEN r.contacts ELSE 0)
    + (IF r.name_b = probe /\ <<r.chr_a, r.start_a, r.size_a>> = key THEN r.contacts ELSE 0)

SumInts(s) ==
    LET RECURSIVE S(_)
        S(i) == IF i > Len(s) THEN 0 ELSE s[i] + S(i + 1)
    IN S(1)

\* cumu_start of a chromosome: the summed lengths of the chromosomes
\* before it in the coordinate table.
cumu_start(coords, c) ==
    SumInts([i \in 1..(chr_rank([j \in DOMAIN coords |-> coords[j].chr], c) - 1) |-> coords[i].length])

\* Lines 188-236: the unbinned contacts table, one row per location with a
\* column (val) per probe fragment.
profile_table(filtered, oligos, coords) ==
    LET chr_list == [j \in DOMAIN coords |-> coords[j].chr]
        probes == {oligos[i].name : i \in DOMAIN oligos}
        keys == {<<r.chr_b, r.start_b, r.size_b>> : r \in {filtered[i] : i \in DOMAIN filtered}}
                \cup {<<r.chr_a, r.start_a, r.size_a>> : r \in {filtered[i] : i \in DOMAIN filtered}}
        used == {k \in keys : \E i \in DOMAIN filtered, p \in probes :
                                  row_contribution(filtered[i], p, k) > 0}
        sorted == SortKeys(chr_list, used)
        cols == Range(fragments_of(oligos))
        cell(k, f) == SumInts([i \in DOMAIN filtered |->
                                  row_contribution(filtered[i], probe_of_column(oligos, f), k)])
        merged == SelectSeq(sorted, LAMBDA k : chr_rank(chr_list, k[1]) <= Len(chr_list))
    IN [n \in DOMAIN sorted |->
           [chr |-> sorted[n][1], start |-> sorted[n][2], sizes |-> sorted[n][3],
            genome_start |-> IF n <= Len(merged)
                             THEN cumu_start(coords, merged[n][1]) + merged[n][2]
                             ELSE NoColumn,
            val |-> [f \in cols |-> RInt(cell(sorted[n], f))]]]

\* The column f of a table, as a sequence of cells.
column(rows, f) == [i \in DOMAIN rows |-> rows[i].val[f]]

\* A normalisation by the number of rows.
divide_by_count(col) == [i \in DOMAIN col |-> RDiv(col[i], RInt(Len(col)))]

\* frag_sum = df[frag].sum(); if frag_sum > 0: df[frag] /= frag_sum, on
\* the column df[frag].
divide_by_sum(col) ==
    LET frag_sum == RSum(col)
    IN IF RPos(frag_sum) THEN [i \in DOMAIN col |-> RDiv(col[i], frag_sum)] ELSE col

\* for frag in fragments: ... over the probe table's fragment list.  Each
\* round rewrites one column only; a fragment listed twice is divided a
\* second time by a total that is then 1.
normalize_columns(rows, frags) ==
    LET done == [f \in Range(frags) |-> divide_by_sum(column(rows, f))]
    IN [i \in DOMAIN rows |->
           [rows[i] EXCEPT !.val = [f \in DOMAIN @ |->
                                      IF f \in DOMAIN done THEN done[f][i] ELSE @[f]]]]

\* Lines 239-243 of profile_contacts.
profile_frequencies(rows, oligos) == normalize_columns(rows, fragments_of(oligos))

\* A split that leaves the start bin's share unscaled.
rebin_pieces_start_unscaled(r, b) ==
    LET end       == r.start + r.sizes
        start_bin == (r.start \div b) * b
        end_bin   == (end \div b) * b
        factor    == Rat(end - end_bin, r.sizes)
    IN IF start_bin # end_bin
       THEN <<[chr |-> r.chr, chr_bins |-> start_bin, val |-> r.val],
              [chr |-> r.chr, chr_bins |-> end_bin,
               val |-> [f \in DOMAIN r.val |-> RMul(r.val[f], factor)]]>>
       ELSE <<[chr |-> r.chr, chr_bins |-> start_bin, val |-> r.val]>>

\* Lines 50-84 of rebin_contacts: the rows each unbinned row turns into --
\* one in its start bin, or, when it crosses a bin edge, one in the start
\* bin and one in the end bin with the contacts split by the correction
\* factor (end - end_bin) / sizes.
rebin_pieces(r, b) ==
    LET end       == r.start + r.sizes
        start_bin == (r.start \div b) * b
        end_bin   == (end \div b) * b
        factor    == Rat(end - end_bin, r.sizes)
    IN IF start_bin # end_bin
       THEN <<[chr |-> r.chr, chr_bins |-> start_bin,
               val |-> [f \in DOMAIN r.val |-> RMul(r.val[f], RSub(RInt(1), factor))]],
              [chr |-> r.chr, chr_bins |-> end_bin,
               val |-> [f \in DOMAIN r.val |-> RMul(r.val[f], factor)]]>>
       ELSE <<[chr |-> r.chr, chr_bins |-> start_bin, val |-> r.val]>>

\* Lines 84-88: the pieces summed per (chr, chr_bins) and merged onto the
\* bin template; a bin without piece holds 0.
merge_on_template(template, pieces, cols) ==
    [n \in DOMAIN template |->
        [chr |-> template[n].chr, chr_bins |-> template[n].chr_bins,
         genome_bins |-> template[n].genome_bins,
         val |-> [f \in cols |->
                    RSum([i \in DOMAIN pieces |->
                            IF pieces[i].chr = template[n].chr
                               /\ pieces[i].chr_bins = template[n].chr_bins
                            THEN pieces[i].val[f] ELSE RInt(0)])]]]

binned_contacts(unbinned, oligos, coords, b) ==
    merge_on_template(build_bins_from_genome(coords, b),
                      FlatMap(unbinned, LAMBDA r : rebin_pieces(r, b)),
                      Range(fragments_of(oligos)))

\* Lines 90-94 of rebin_contacts.
binned_frequencies(binned, oligos) == normalize_columns(binned, fragments_of(oligos))

\* sshic/binning.py rebin_contacts: every row goes to the bin of its start.
binned_contacts_legacy(unbinned, oligos, coords, b) ==
    merge_on_template(build_bins_from_genome_legacy(coords, b),
                      [i \in DOMAIN unbinned |->
                          [chr |-> unbinned[i].chr,
                           chr_bins |-> (unbinned[i].start \div b) * b,
                           val |-> unbinned[i].val]],
                      Range(fragments_of(oligos)))

\* sshic/binning.py line 97: df[fragments].div(df[fragments].sum(axis=0)),
\* without guard: a column of total 0 becomes 0/0, undefined.
binned_frequencies_legacy(binned) ==
    [i \in DOMAIN binned |->
        [binned[i] EXCEPT !.val = [f \in DOMAIN @ |-> RDiv(@[f], RSum(column(binned, f)))]]]

(***************************************************************************)
(* Statistics engine: get_stats (statistics.py)                            *)
(***************************************************************************)
CisRanges == {0, 10, 30}

\* The probe's original coordinates (chr_ori, start_ori, stop_ori): those
\* of the capture table for a probe designed on a natural chromosome.
chr_ori(o) == o.chr

start_ori(o) == o.start

stop_ori(o) == o.end

\* The fractions without the test on probe_contacts.
stats_fractions_unguarded(probe_contacts, cis_sum, inter_sum) ==
    [cis       |-> RDiv(cis_sum, probe_contacts),
     trans     |-> RSub(RInt(1), RDiv(cis_sum, probe_contacts)),
     inter_chr |-> RDiv(inter_sum, probe_contacts),
     intra_chr |-> RSub(RInt(1), RDiv(inter_sum, probe_contacts))]

\* Lines 84-95: the four fractions of one probe.
stats_fractions(probe_contacts, cis_sum, inter_sum) ==
    IF RPos(probe_contacts)
    THEN [cis       |-> RDiv(cis_sum, probe_contacts),
          trans     |-> RSub(RInt(1), RDiv(cis_sum, probe_contacts)),
          inter_chr |-> RDiv(inter_sum, probe_contacts),
          intra_chr |-> RSub(RInt(1), RDiv(inter_sum, probe_contacts))]
    ELSE [cis |-> RInt(0), trans |-> RInt(0), inter_chr |-> RInt(0), intra_chr |-> RInt(0)]

\* The sum of column f over the rows that satisfy `keep`.
column_sum_where(rows, f, keep(_)) ==
    RSum([i \in DOMAIN rows |-> IF keep(rows[i]) THEN rows[i].val[f] ELSE RInt(0)])

\* Lines 102-130: the size-normalised contacts of one probe on `chrom`,
\* n / d over chrom_size / genome_size, 0 when n is 0.
normalized_on_chr(coords, o, n, d, chrom) ==
    LET chrom_size  == chr_sizes_value(coords, chrom)
        genome_size == SumInts([i \in DOMAIN coords |->
                                   IF coords[i].chr # chr_ori(o) THEN coords[i].length ELSE 0])
    IN IF n = RInt(0) THEN RInt(0)
       ELSE RDiv(RDiv(n, d), Rat(chrom_size, genome_size))

\* Lines 62-130: the statistics row of the probe at position i.
stats_row(unbinned, sparse, coords, oligos, i, range) ==
    LET o    == oligos[i]
        frag == o.fragment
        cis_start == start_ori(o) - range
        cis_stop  == stop_ori(o) + range
        probe_contacts == RSum(column(unbinned, frag))
        total_sparse_contacts == SumInts([k \in DOMAIN sparse |-> sparse[k].contacts])
        probes_contacts_inter ==
            column_sum_where(unbinned, frag, LAMBDA r : r.chr # chr_ori(o))
        cis_sum ==
            column_sum_where(unbinned, frag,
                LAMBDA r : r.chr = chr_ori(o) /\ r.start >= cis_start
                           /\ r.start + r.sizes <= cis_stop)
        fr == stats_fractions(probe_contacts, cis_sum, probes_contacts_inter)
        chroms == Range(chr_sizes_keys(coords))
    IN [probe |-> o.name, fragment |-> frag, type |-> o.type, chr |-> chr_ori(o),
        contacts |-> probe_contacts,
        coverage_over_hic_contacts |-> RDiv(probe_contacts, RInt(total_sparse_contacts)),
        cis |-> fr.cis, trans |-> fr.trans,
        intra_chr |-> fr.intra_chr, inter_chr |-> fr.inter_chr,
        norm_chr |-> [c \in chroms |->
            normalized_on_chr(coords, o,
                column_sum_where(unbinned, frag, LAMBDA r : r.chr = c), probe_contacts, c)],
        norm_inter_chr |-> [c \in chroms |->
            normalized_on_chr(coords, o,
                column_sum_where(unbinned, frag, LAMBDA r : r.chr = c /\ r.chr # chr_ori(o)),
                probes_contacts_inter, c)]]

\* Lines 134-136: contacts over the mean contacts of the ds probes.
get_stats(unbinned, sparse, coords, oligos, range) ==
    LET rows == [i \in DOMAIN oligos |-> stats_row(unbinned, sparse, coords, oligos, i, range)]
        ds   == SelectSeq(rows, LAMBDA r : r.type = "ds")
        d3   == RMean([k \in DOMAIN ds |-> ds[k].contacts])
    IN [i \in DOMAIN rows |->
           [probe |-> rows[i].probe, fragment |-> rows[i].fragment, type |-> rows[i].type,
            chr |-> rows[i].chr, contacts |-> rows[i].contacts,
            coverage_over_hic_contacts |-> rows[i].coverage_over_hic_contacts,
            cis |-> rows[i].cis, trans |-> rows[i].trans,
            intra_chr |-> rows[i].intra_chr, inter_chr |-> rows[i].inter_chr,
            norm_chr |-> rows[i].norm_chr, norm_inter_chr |-> rows[i].norm_inter_chr,
            dsdna_norm_capture_efficiency |-> RDiv(rows[i].contacts, d3)]]

(***************************************************************************)
(* The chain filter -> profile -> rebin / statistics on one sample         *)
(***************************************************************************)
ProfFail(exc) ==
    /\ profPc' = "failed"
    /\ prof_error' = exc
    /\ UNCHANGED <<df_contacts_filtered, df_contacts_hic_only>>

\* filter_contacts: association (when the table has no fragment column),
\* the oligo table written back, the filtered table, the Hi-C only matrix.
FilterContacts ==
    /\ profPc = "inputs"
    /\ IF ~has_fragment_column(df_oligos)
          /\ \E i \in DOMAIN df_oligos :
                \A k \in DOMAIN df_fragments : df_fragments[k].chr # df_oligos[i].chr
       THEN ProfFail("IndexError") /\ UNCHANGED df_oligos
       ELSE LET oligos == associated_oligos(df_fragments, df_oligos)
            IN /\ df_oligos' = oligos
               /\ IF Len(starts_match(df_fragments, oligos)) # Len(oligos)
                  THEN ProfFail("ValueError")
                  ELSE /\ df_contacts_filtered' = contacts_filtered(df_fragments, oligos, df_sparse)
                       /\ df_contacts_hic_only' = contacts_hic_only(df_fragments, oligos, df_sparse)
                       /\ profPc' = "filtered"
                       /\ UNCHANGED prof_error
    /\ UNCHANGED <<df_fragments, df_sparse, df_coords, df_unbinned, df_frequencies,
                   rebin_size, df_binned_contacts, df_binned_freq, cis_range, df_stats>>
    /\ UNCHANGED notProf

ProfileContacts ==
    /\ profPc = "filtered"
    /\ LET t == profile_table(df_contacts_filtered, df_oligos, df_coords)
       IN /\ df_unbinned' = t
          /\ df_frequencies' = profile_frequencies(t, df_oligos)
    /\ profPc' = "profiled"
    /\ UNCHANGED <<prof_error, df_fragments, df_oligos, df_sparse, df_contacts_filtered,
                   df_contacts_hic_only, df_coords, rebin_size, df_binned_contacts,
                   df_binned_freq, cis_range, df_stats>>
    /\ UNCHANGED notProf

RebinContacts ==
    /\ profPc = "profiled"
    /\ \E b \in BinSizes :
          LET t == binned_contacts(df_unbinned, df_oligos, df_coords, b)
          IN /\ rebin_size' = b
             /\ df_binned_contacts' = t
             /\ df_binned_freq' = binned_frequencies(t, df_oligos)
    /\ profPc' = "rebinned"
    /\ UNCHANGED <<prof_error, df_fragments, df_oligos, df_sparse, df_contacts_filtered,
                   df_contacts_hic_only, df_coords, df_unbinned, df_frequencies,
                   cis_range, df_stats>>
    /\ UNCHANGED notProf

RebinContactsLegacy ==
    /\ profPc = "profiled"
    /\ \E b \in BinSizes :
          LET t == binned_contacts_legacy(df_unbinned, df_oligos, df_coords, b)
          IN /\ rebin_size' = b
             /\ df_binned_contacts' = t
             /\ df_binned_freq' = binned_frequencies_legacy(t)
    /\ profPc' = "rebinned_legacy"
    /\ UNCHANGED <<prof_error, df_fragments, df_oligos, df_sparse, df_contacts_filtered,
                   df_contacts_hic_only, df_coords, df_unbinned, df_frequencies,
                   cis_range, df_stats>>
    /\ UNCHANGED notProf

GetStats ==
    /\ profPc = "profiled"
    /\ \E r \in CisRanges :
          /\ cis_range' = r
          /\ df_stats' = get_stats(df_unbinned, df_sparse, df_coords, df_oligos, r)
    /\ profPc' = "stats"
    /\ UNCHANGED <<prof_error, df_fragments, df_oligos, df_sparse, df_contacts_filtered,
                   df_contacts_hic_only, df_coords, df_unbinned, df_frequencies,
                   rebin_size, df_binned_contacts, df_binned_freq>>
    /\ UNCHANGED notProf

ProfInit ==
    /\ profPc = "inputs"
    /\ prof_error = "none"
    /\ df_fragments = FragmentsFixture
    /\ df_coords = CoordsFixture
    /\ df_oligos \in OligoTables
    /\ df_sparse \in SparseMatrices
    /\ df_contacts_filtered = <<>>
    /\ df_contacts_hic_only = [header |-> <<0, 0, 0>>, rows |-> <<>>]
    /\ df_unbinned = <<>>
    /\ df_frequencies = <<>>
    /\ rebin_size = 0
    /\ df_binned_contacts = <<>>
    /\ df_binned_freq = <<>>
    /\ cis_range = 0
    /\ df_stats = <<>>

ProfIdle ==
    /\ profPc = "idle"
    /\ prof_error = "none"
    /\ df_fragments = <<>>
    /\ df_coords = <<>>
    /\ df_oligos = <<>>
    /\ df_sparse = <<>>
    /\ df_contacts_filtered = <<>>
    /\ df_contacts_hic_only = [header |-> <<0, 0, 0>>, rows |-> <<>>]
    /\ df_unbinned = <<>>
    /\ df_frequencies = <<>>
    /\ rebin_size = 0
    /\ df_binned_contacts = <<>>
    /\ df_binned_freq = <<>>
    /\ cis_range = 0
    /\ df_stats = <<>>

(***************************************************************************)
(* Chromosome ordering: sort_by_chr (sshic/core/utils.py)                  *)
(***************************************************************************)
MaxSortLen == 5

order ==
    <<"chr1", "chr2", "chr3", "chr4", "chr5", "chr6", "chr7",
      "chr8", "chr9", "chr10", "chr11", "chr12", "chr13", "chr14",
      "chr15", "chr16", "2_micron", "mitochondrion", "chr_artificial">>

\* The chromosome names the tables are drawn from.
SortNames == {"chr3", "chr1", "2_micron", "chr16", "unknownX"}

SortTables == UNION {[1..n -> SortNames] : n \in 0..MaxSortLen}

\* order.index(x) if x in order else len(order), as a 0-based index.
chr_code(x) ==
    IF \E i \in DOMAIN order : order[i] = x
    THEN (CHOOSE i \in DOMAIN order : order[i] = x) - 1
    ELSE Len(order)

\* df.sort_values(by=['chr']) on the column of codes.
RECURSIVE sort_values(_)
sort_values(codes) ==
    IF codes = <<>> THEN <<>>
    ELSE LET m == CHOOSE i \in DOMAIN codes : \A j \in DOMAIN codes : codes[i] <= codes[j]
         IN <<codes[m]>> \o sort_values([k \in 1..(Len(codes) - 1) |->
                                            IF k < m THEN codes[k] ELSE codes[k + 1]])

\* order[x] for a 0-based index x: defined for 0 <= x < len(order) (and,
\* as a Python index, for the negative ones, which no code is).
order_has(x) == x >= 0 /\ x < Len(order)

SortByChr ==
    /\ sortPc = "call"
    /\ LET codes  == [i \in DOMAIN sort_df |-> chr_code(sort_df[i])]
           sorted == sort_values(codes)
       IN IF \A i \in DOMAIN sorted : order_has(sorted[i])
          THEN /\ sort_out' = [i \in DOMAIN sorted |-> order[sorted[i] + 1]]
               /\ sort_error' = "none"
               /\ sortPc' = "returned"
          ELSE /\ sort_error' = "IndexError"
               /\ sortPc' = "raised"
               /\ UNCHANGED sort_out
    /\ UNCHANGED sort_df
    /\ UNCHANGED notSort

SortInit ==
    /\ sortPc = "call"
    /\ sort_df \in SortTables
    /\ sort_out = <<>>
    /\ sort_error = "none"

SortIdle ==
    /\ sortPc = "idle"
    /\ sort_df = <<>>
    /\ sort_out = <<>>
    /\ sort_error = "none"

(***************************************************************************)
(* Oligo / fragment association on its own: every digestion of a           *)
(* chromosome, every probe interval on it                                  *)
(***************************************************************************)
MaxAssocLen == 7

\* The elements of a set of integers in increasing order.
RECURSIVE Ascending(_)
Ascending(S) ==
    IF S = {} THEN <<>>
    ELSE LET m == CHOOSE x \in S : \A y \in S : x <= y
         IN <<m>> \o Ascending(S \ {m})

\* The fragments [c0, c1), [c1, c2), ... a chromosome of length l is cut
\* into at the sites `cuts`, numbered from first_id in coordinate order.
Digest(chr, cuts, l, first_id) ==
    LET edges == Ascending(cuts \cup {0, l})
    IN [i \in 1..(Len(edges) - 1) |->
           [frag |-> first_id + i - 1, chr |-> chr,
            start |-> edges[i], end |-> edges[i + 1], size |-> edges[i + 1] - edges[i]]]

\* The fragment lists: chr1 digested at any set of sites, then chr2 in two
\* fragments.
Digestions ==
    {Digest("chr1", cuts, MaxAssocLen, 0)
        \o Digest("chr2", {3}, MaxAssocLen, Cardinality(cuts) + 1) :
            cuts \in SUBSET (1..(MaxAssocLen - 1))}

\* The probes: any interval of either chromosome.
AssocOligos ==
    {Oligo(c, s, e, "ss", "Probe") :
        c \in {"chr1", "chr2"}, s \in 0..(MaxAssocLen - 1), e \in 1..MaxAssocLen}

Associate ==
    /\ assocPc = "call"
    /\ assoc_result' = associate_row(assoc_fragments, assoc_oligo)
    /\ assocPc' = "returned"
    /\ UNCHANGED <<assoc_fragments, assoc_oligo>>
    /\ UNCHANGED notAssoc

AssocInit ==
    /\ assocPc = "call"
    /\ assoc_fragments \in Digestions
    /\ assoc_oligo \in {o \in AssocOligos : o.start < o.end}
    /\ assoc_result = Oligo("", 0, 0, "", "")

AssocIdle ==
    /\ assocPc = "idle"
    /\ assoc_fragments = <<>>
    /\ assoc_oligo = Oligo("", 0, 0, "", "")
    /\ assoc_result = Oligo("", 0, 0, "", "")

(***************************************************************************)
(* Aggregation engine: aggregate, chr_arm (aggregated.py) and the          *)
(* prototype freq_focus_around_centromeres / compute_aggregate_stats       *)
(***************************************************************************)
MaxAggCells == 2

MaxAggCount == 1

\* The margin of the centromere and telomere windows, also the grid the
\* recentring rounds to.
CenMargin == 10000

\* chr_arm's telomeres_size and its margin.
ArmTelomeresSize == 30000

ArmMargin == 1000

\* The centromere table: three chromosomes, one with its centromere off
\* the bin grid (nearer to the grid point above it than to the one below).
CentrosFixture ==
    <<[chr |-> "chr1", length |-> 25000, left_arm_length |-> 18000,
       right_arm_length |-> 7000, category |-> <<"small", "small">>],
      [chr |-> "chr2", length |-> 25000, left_arm_length |-> 20000,
       right_arm_length |-> 5000, category |-> <<"long", "small">>],
      [chr |-> "chr3", length |-> 15000, left_arm_length |-> 10000,
       right_arm_length |-> 5000, category |-> <<"small", "small">>]>>

\* The coordinate files: with the arm-size category column or without it.
CentrosTables ==
    {CentrosFixture,
     [k \in DOMAIN CentrosFixture |->
         [chr |-> CentrosFixture[k].chr, length |-> CentrosFixture[k].length,
          left_arm_length |-> CentrosFixture[k].left_arm_length,
          right_arm_length |-> CentrosFixture[k].right_arm_length]]}

\* "category" in df_centros.columns
has_category(centros) == \A k \in DOMAIN centros : "category" \in DOMAIN centros[k]

\* The probe fragment of the sample.
AggFragment == 7

\* The capture tables: one probe, designed on chr1 or on chr2.
AggProbeTables ==
    {<<[name |-> "Probe", fragment |-> AggFragment, chr_ori |-> c]>> : c \in {"chr1", "chr2"}}

\* The binned profiles, on the bins build_bins_from_genome makes of the
\* fixture at the margin's resolution: at most MaxAggCells bins carry
\* contacts, the others 0.
AggTemplate == build_bins_from_genome(CentrosFixture, CenMargin)

AggContactTables ==
    {[i \in DOMAIN AggTemplate |->
         [chr |-> AggTemplate[i].chr, chr_bins |-> AggTemplate[i].chr_bins,
          genome_bins |-> AggTemplate[i].genome_bins,
          val |-> [f \in {AggFragment} |-> RInt(IF i \in DOMAIN h THEN h[i] ELSE 0)]]] :
        h \in UNION {[S -> 1..MaxAggCount] :
                        S \in {T \in SUBSET DOMAIN AggTemplate : Cardinality(T) <= MaxAggCells}}}

\* The options of a call.  excluded_chr_list is None (the default) or a
\* list, here the set of its names.
AggOptions ==
    {o \in [on : {"centromeres", "telomeres", "nucleosomes"},
            window_size : {10000, 20000},
            excluded_is_none : BOOLEAN,
            excluded_chr_list : {{}, {"chr3"}},
            exclude_probe_chr : BOOLEAN,
            inter_normalization : BOOLEAN,
            aggregate_by_arm_sizes : BOOLEAN] :
        o.excluded_is_none => o.excluded_chr_list = {}}

\* Lines 53-62: the arms of the chromosomes that are not excluded.
arms_size(centros, excluded) ==
    FlatMap(centros, LAMBDA row :
        IF row.chr \notin excluded
        THEN <<[chr |-> row.chr, arm |-> "left", size |-> row.left_arm_length,
                category |-> row.category[1]],
               [chr |-> row.chr, arm |-> "right", size |-> row.right_arm_length,
                category |-> row.category[2]]>>
        ELSE <<>>)

\* df_probes["fragment"].unique()
unique_fragments(probes) == Range(fragments_of(probes))

\* probe_chr_ori of a fragment: the chr_ori of the first probe on it.
probe_chr_ori(probes, f) ==
    probes[CHOOSE i \in DOMAIN probes :
               probes[i].fragment = f /\ \A j \in 1..(i - 1) : probes[j].fragment # f].chr_ori

\* A masking that writes 0 instead of NaN.
mask_probe_chr_with_zero(contacts, probes, excluded) ==
    [i \in DOMAIN contacts |->
        [contacts[i] EXCEPT !.val = [f \in DOMAIN @ |->
            IF /\ f \in unique_fragments(probes)
               /\ probe_chr_ori(probes, f) \notin excluded
               /\ contacts[i].chr = probe_chr_ori(probes, f)
            THEN RInt(0) ELSE @[f]]]]

\* Lines 82-90: the probe's contacts with its own chromosome set to NaN.
mask_probe_chr(contacts, probes, excluded) ==
    [i \in DOMAIN contacts |->
        [contacts[i] EXCEPT !.val = [f \in DOMAIN @ |->
            IF /\ f \in unique_fragments(probes)
               /\ probe_chr_ori(probes, f) \notin excluded
               /\ contacts[i].chr = probe_chr_ori(probes, f)
            THEN NaN ELSE @[f]]]]

\* Lines 92-96: each fragment column over its sum.
inter_normalize(contacts, frags) ==
    LET total == [f \in frags |-> RSum(column(contacts, f))]
    IN [i \in DOMAIN contacts |->
           [contacts[i] EXCEPT !.val = [f \in DOMAIN @ |->
               IF f \in frags THEN RDiv(@[f], total[f]) ELSE @[f]]]]

\* groupby(['chr', 'chr_bins']).mean() then sort_by_chr(.., 'chr', 'chr_bins').
grouped_mean(rows, chr_list) ==
    LET keys   == {<<rows[i].chr, rows[i].chr_bins, 0>> : i \in DOMAIN rows}
        sorted == SortKeys(chr_list, keys)
    IN [n \in DOMAIN sorted |->
           LET members == SelectSeq(rows, LAMBDA r : r.chr = sorted[n][1]
                                                    /\ r.chr_bins = sorted[n][2])
           IN [chr |-> sorted[n][1], chr_bins |-> sorted[n][2],
               val |-> [f \in DOMAIN members[1].val |->
                           RMean([k \in DOMAIN members |-> members[k].val[f]])]]]

\* groupby(by="chr_bins").mean()
mean_by_chr_bins(grouped, cols) ==
    LET bins == Ascending({grouped[i].chr_bins : i \in DOMAIN grouped})
    IN [n \in DOMAIN bins |->
           LET members == SelectSeq(grouped, LAMBDA g : g.chr_bins = bins[n])
           IN [chr_bins |-> bins[n],
               val |-> [f \in cols |-> RMean([k \in DOMAIN members |-> members[k].val[f]])]]]

centros_of(centros, c) == centros[CHOOSE k \in DOMAIN centros : centros[k].chr = c]

\* Lines 104-110: the bins of the centromere windows, recentred.
centromere_areas(contacts, centros, window_size) ==
    LET merged == SelectSeq(contacts, LAMBDA r : \E k \in DOMAIN centros : centros[k].chr = r.chr)
        inside == SelectSeq(merged, LAMBDA r :
                     /\ r.chr_bins > centros_of(centros, r.chr).left_arm_length
                                        - window_size - CenMargin
                     /\ r.chr_bins < centros_of(centros, r.chr).left_arm_length + window_size)
    IN [i \in DOMAIN inside |->
           [inside[i] EXCEPT !.chr_bins =
               Abs(@ - (centros_of(centros, inside[i].chr).left_arm_length \div CenMargin)
                          * CenMargin)]]

\* Lines 116-124: the bins of the telomere windows, the right ones recentred.
telomere_areas(contacts, centros, window_size) ==
    LET merged == SelectSeq(contacts, LAMBDA r : \E k \in DOMAIN centros : centros[k].chr = r.chr)
        part_a == SelectSeq(merged, LAMBDA r : r.chr_bins < 0 + window_size + CenMargin)
        part_b == SelectSeq(merged, LAMBDA r :
                     r.chr_bins > centros_of(centros, r.chr).length - window_size - CenMargin)
    IN part_a \o [i \in DOMAIN part_b |->
                     [part_b[i] EXCEPT !.chr_bins =
                         Abs(@ - (centros_of(centros, part_b[i].chr).length \div CenMargin)
                                    * CenMargin)]]

\* chr_arm: the mean per arm category of the telomere-proximal bins.
chr_arm(df_chr_arm, centros, contacts, cols) ==
    LET merged == SelectSeq(contacts, LAMBDA r : \E k \in DOMAIN centros : centros[k].chr = r.chr)
        part_a == SelectSeq(merged, LAMBDA r : r.chr_bins < 0 + ArmTelomeresSize + ArmMargin)
        part_b == SelectSeq(merged, LAMBDA r :
                     r.chr_bins > centros_of(centros, r.chr).length - ArmTelomeresSize - ArmMargin)
        armed  == [i \in DOMAIN part_a |-> [chr |-> part_a[i].chr, arm |-> "left", val |-> part_a[i].val]]
                  \o [i \in DOMAIN part_b |-> [chr |-> part_b[i].chr, arm |-> "right", val |-> part_b[i].val]]
        merged2 == FlatMap(armed, LAMBDA r :
                      LET a == SelectSeq(df_chr_arm, LAMBDA x : x.chr = r.chr /\ x.arm = r.arm)
                      IN [k \in DOMAIN a |-> [category |-> a[k].category, val |-> r.val]])
    IN {[category |-> c,
         val |-> [f \in cols |->
                     LET members == SelectSeq(merged2, LAMBDA r : r.category = c)
                     IN RMean([k \in DOMAIN members |-> members[k].val[f]])]] :
           c \in {merged2[k].category : k \in DOMAIN merged2}}

\* aggregate(): one call, to its return or to the exception that ends it.
Aggregate ==
    /\ aggPc = "call"
    /\ IF agg_opts.excluded_is_none
       THEN \* line 56: chr_ not in None
            /\ agg_error' = "TypeError"
            /\ aggPc' = "raised"
            /\ UNCHANGED <<df_grouped, df_aggregated_mean, agg_pivots, df_by_arm>>
       ELSE IF ~has_category(agg_centros)
       THEN \* line 57: row["category"] (line 62 when every row is excluded)
            /\ agg_error' = "KeyError"
            /\ aggPc' = "raised"
            /\ UNCHANGED <<df_grouped, df_aggregated_mean, agg_pivots, df_by_arm>>
       ELSE LET excluded == agg_opts.excluded_chr_list
                chr_list == [k \in DOMAIN agg_centros |-> agg_centros[k].chr]
                df_arms_size == arms_size(agg_centros, excluded)
                cols     == unique_fragments(agg_probes)
                kept     == SelectSeq(agg_contacts, LAMBDA r : r.chr \notin excluded)
                centros  == SelectSeq(agg_centros, LAMBDA r : r.chr \notin excluded)
                masked   == IF agg_opts.exclude_probe_chr
                            THEN mask_probe_chr(kept, agg_probes, excluded) ELSE kept
                contacts == IF agg_opts.inter_normalization
                            THEN inter_normalize(masked, cols) ELSE masked
            IN IF agg_opts.on \notin {"centromeres", "telomeres"}
               THEN /\ aggPc' = "returned"
                    /\ UNCHANGED <<agg_error, df_grouped, df_aggregated_mean, agg_pivots,
                                   df_by_arm>>
               ELSE LET areas   == IF agg_opts.on = "centromeres"
                                   THEN centromere_areas(contacts, centros, agg_opts.window_size)
                                   ELSE telomere_areas(contacts, centros, agg_opts.window_size)
                        grouped == grouped_mean(areas, chr_list)
                    IN /\ df_grouped' = grouped
                       /\ df_aggregated_mean' = mean_by_chr_bins(grouped, cols)
                       /\ agg_pivots' = {f \in cols : RSum(column(grouped, f)) # RInt(0)}
                       /\ df_by_arm' = IF agg_opts.on = "telomeres"
                                          /\ agg_opts.aggregate_by_arm_sizes
                                       THEN chr_arm(df_arms_size, centros, contacts, cols)
                                       ELSE df_by_arm
                       /\ aggPc' = "written"
                       /\ UNCHANGED agg_error
    /\ UNCHANGED <<agg_contacts, agg_centros, agg_probes, agg_opts>>
    /\ UNCHANGED notAgg

\* utils.find_nearest(values, key, mode='lower'): the greatest value at or
\* below key.
find_nearest_lower(values, key) ==
    CHOOSE v \in Range(values) : v <= key /\ \A u \in Range(values) : u <= key => u <= v

\* freq_focus_around_centromeres: per chromosome, the bins of the window
\* counted from the centromere's bin, the columns of the probes designed
\* on that chromosome set to NaN.
freq_focus_around_centromeres(contacts, centros, window_size, probes) ==
    LET bin_size == contacts[2].chr_bins - contacts[1].chr_bins
    IN FlatMap(centros, LAMBDA row :
          LET left_cutoff  == IF row.left_arm_length - window_size - bin_size < 0 THEN 0
                              ELSE row.left_arm_length - window_size - bin_size
              right_cutoff == row.left_arm_length + window_size
              tmp_df == SelectSeq(contacts, LAMBDA r :
                            r.chr = row.chr /\ r.chr_bins > left_cutoff
                            /\ r.chr_bins < right_cutoff)
              current_centros_bin ==
                  find_nearest_lower([k \in DOMAIN tmp_df |-> tmp_df[k].chr_bins],
                                     row.left_arm_length)
          IN [k \in DOMAIN tmp_df |->
                 [chr |-> tmp_df[k].chr,
                  chr_bins |-> tmp_df[k].chr_bins - current_centros_bin,
                  val |-> [f \in DOMAIN tmp_df[k].val |->
                              IF probe_chr_ori(probes, f) = row.chr THEN NaN
                              ELSE tmp_df[k].val[f]]]])

\* The prototype's aggregation around centromeres: the window bins, then
\* compute_aggregate_stats' mean per bin.
AggregateLegacy ==
    /\ aggPc = "call"
    /\ LET df_res == freq_focus_around_centromeres(agg_contacts, agg_centros,
                                                   agg_opts.window_size, agg_probes)
       IN /\ df_grouped' = df_res
          /\ df_aggregated_mean' = mean_by_chr_bins(df_res, unique_fragments(agg_probes))
    /\ aggPc' = "written_legacy"
    /\ UNCHANGED <<agg_error, agg_pivots, df_by_arm>>
    /\ UNCHANGED <<agg_contacts, agg_centros, agg_probes, agg_opts>>
    /\ UNCHANGED notAgg

AggInit ==
    /\ aggPc = "call"
    /\ agg_error = "none"
    /\ agg_contacts \in AggContactTables
    /\ agg_centros \in CentrosTables
    \* the file without category column comes with the profile without
    \* contacts: aggregate fails on that file before it reads the profile
    /\ has_category(agg_centros)
          \/ \A i \in DOMAIN agg_contacts : agg_contacts[i].val[AggFragment] = RInt(0)
    /\ agg_probes \in AggProbeTables
    /\ agg_opts \in AggOptions
    /\ df_grouped = <<>>
    /\ df_aggregated_mean = <<>>
    /\ agg_pivots = {}
    /\ df_by_arm = {}

AggIdle ==
    /\ aggPc = "idle"
    /\ agg_error = "none"
    /\ agg_contacts = <<>>
    /\ agg_centros = <<>>
    /\ agg_probes = <<>>
    /\ agg_opts = [on |-> "centromeres", window_size |-> 0, excluded_is_none |-> TRUE,
                   excluded_chr_list |-> {}, exclude_probe_chr |-> TRUE,
                   inter_normalization |-> TRUE, aggregate_by_arm_sizes |-> TRUE]
    /\ df_grouped = <<>>
    /\ df_aggregated_mean = <<>>
    /\ agg_pivots = {}
    /\ df_by_arm = {}

(***************************************************************************)
(* Nucleosome context (sshic/nucleosomes.py)                               *)
(***************************************************************************)
MaxNucleosomes == 2

\* Line 23.
excluded_chr == {"2_micron", "mitochondrion", "chr_artificial"}

FilterModes == {"start_only", "end_only", "middle", "start_&_end"}

NfrFragmentsFixture ==
    <<[chrom |-> "chr1", start_pos |-> 0, end_pos |-> 4],
      [chrom |-> "chr1", start_pos |-> 4, end_pos |-> 8],
      [chrom |-> "chr1", start_pos |-> 8, end_pos |-> 12],
      [chrom |-> "chr_artificial", start_pos |-> 0, end_pos |-> 4]>>

\* The fragment lists: the rows of the fixture a file keeps, in order.
NfrFragmentTables ==
    {SelectSeq(NfrFragmentsFixture, LAMBDA f : f \in S) : S \in SUBSET Range(NfrFragmentsFixture)}

NucleosomeRows ==
    {[chrom |-> c, start |-> i[1], end |-> i[2]] :
        c \in {"chr1", "chr_artificial"}, i \in {<<1, 5>>, <<4, 8>>, <<3, 9>>}}

\* The nucleosome files: rows may overlap and may be repeated.
NucleosomeTables == UNION {[1..n -> NucleosomeRows] : n \in 0..MaxNucleosomes}

\* Line 21: drop_duplicates(keep='first').
drop_duplicates(rows) ==
    SelectSeq([i \in DOMAIN rows |-> [row |-> rows[i], i |-> i]],
              LAMBDA r : \A j \in 1..(r.i - 1) : rows[j] # r.row)

\* Lines 19, 24: the fragments with their uid (row number in the file),
\* without the rows of the excluded chromosomes.
nfr_kept_fragments(fragments) ==
    SelectSeq([i \in DOMAIN fragments |->
                  [uid |-> i - 1, chrom |-> fragments[i].chrom,
                   start_pos |-> fragments[i].start_pos, end_pos |-> fragments[i].end_pos]],
              LAMBDA f : f.chrom \notin excluded_chr)

\* Lines 26, 37: pd.merge(df_fragments, df_nucleosomes, on='chrom').
nfr_merged(fragments, nucleosomes) ==
    LET pairs(f) == LET ns == SelectSeq(nucleosomes, LAMBDA n : n.row.chrom = f.chrom)
                    IN [j \in DOMAIN ns |->
                           [uid |-> f.uid, start_pos |-> f.start_pos, end_pos |-> f.end_pos,
                            start |-> ns[j].row.start, end |-> ns[j].row.end]]
    IN FlatMap(fragments, pairs)

\* Lines 28-42: the test of each mode on a merged row (the midpoint is
\* (end_pos + start_pos) / 2, compared here after doubling both sides).
in_nfr(mode, m) ==
    CASE mode = "start_only"  -> m.start_pos > m.start /\ m.start_pos < m.end
      [] mode = "end_only"    -> m.end_pos > m.start /\ m.end_pos < m.end
      [] mode = "middle"      -> /\ m.end_pos + m.start_pos >= 2 * m.start
                                 /\ m.end_pos + m.start_pos <= 2 * m.end
      [] mode = "start_&_end" -> m.start_pos > m.start /\ m.end_pos < m.end

\* A np.unique that keeps the repeated values.
np_unique_with_repeats(values) == values

\* Line 44: np.unique, the distinct values in ascending order.
np_unique(values) == Ascending(Range(values))

\* Lines 43-46: the uid of the rows of df_fragments.loc[index_in_nfr] and
\* of df_fragments.drop(index_in_nfr).
index_in_nfr(mode, fragments, nucleosomes) ==
    LET merged == nfr_merged(nfr_kept_fragments(fragments), drop_duplicates(nucleosomes))
        hits   == SelectSeq(merged, LAMBDA m : in_nfr(mode, m))
    IN np_unique([i \in DOMAIN hits |-> hits[i].uid])

GetNfrContacts ==
    /\ nfrPc = "call"
    /\ LET idx  == index_in_nfr(filter_mode, nfr_fragments, nfr_nucleosomes)
           kept == nfr_kept_fragments(nfr_fragments)
           out  == SelectSeq(kept, LAMBDA f : f.uid \notin Range(idx))
       IN /\ df_fragments_in_nfr' = idx
          /\ df_fragments_out_nfr' = [i \in DOMAIN out |-> out[i].uid]
    /\ nfrPc' = "returned"
    /\ UNCHANGED <<nfr_fragments, nfr_nucleosomes, filter_mode>>
    /\ UNCHANGED notNfr

NfrInit ==
    /\ nfrPc = "call"
    /\ nfr_fragments \in NfrFragmentTables
    /\ nfr_nucleosomes \in NucleosomeTables
    /\ filter_mode \in FilterModes
    /\ df_fragments_in_nfr = <<>>
    /\ df_fragments_out_nfr = <<>>

NfrIdle ==
    /\ nfrPc = "idle"
    /\ nfr_fragments = <<>>
    /\ nfr_nucleosomes = <<>>
    /\ filter_mode = "none"
    /\ df_fragments_in_nfr = <<>>
    /\ df_fragments_out_nfr = <<>>

(***************************************************************************)
(* Legacy batch driver (sshic/pipeline.py, __main__)                       *)
(***************************************************************************)
Threads == 2

Workers == 1..Threads

Digits == {"0", "1", "2", "3", "4", "5", "6", "7", "8", "9"}

\* File names, one character per element.
FileNames ==
    {<<"A", "D", "1">>,
     <<"A", "D", "1", "_", "b">>,
     <<"A", "D", "1", "2">>,
     <<"A", "D", "2", ".", "t">>,
     <<"A", "D", "_", "1">>,
     <<"x", "A", "D", "1">>}

NoSample == <<>>

\* re.match(r'^AD\d+', s): is there a match at the start of the name.
re_match(s) == Len(s) >= 3 /\ s[1] = "A" /\ s[2] = "D" /\ s[3] \in Digits

\* Line 26: re.match(r'^AD\d+', name).group(), the greedy match.
samp_id(s) ==
    LET last == CHOOSE k \in 3..Len(s) :
                    /\ \A j \in 3..k : s[j] \in Digits
                    /\ k < Len(s) => s[k + 1] \notin Digits
    IN SubSeq(s, 1, last)

\* Lines 25-28: my_sample_output_dir, relative to the samples directory.
my_sample_output_dir(s) == samp_id(s)

\* Lines 164-165: the files of the samples directory whose name matches.
ListSamples ==
    /\ batchPc = "start"
    /\ my_samples' = {s \in samples_dir : re_match(s)}
    /\ batchPc' = "pool"
    /\ UNCHANGED <<samples_dir, worker_pc, worker_sample, dir_writers>>
    /\ UNCHANGED notBatch

\* Lines 169-180, 25-29: a free worker of the pool is given a sample and
\* enters main(), which creates the sample's output directory.
WorkerMain(w) ==
    /\ batchPc = "pool"
    /\ worker_pc[w] = "idle"
    /\ \E s \in my_samples :
          /\ my_samples' = my_samples \ {s}
          /\ worker_sample' = [worker_sample EXCEPT ![w] = s]
    /\ worker_pc' = [worker_pc EXCEPT ![w] = "main"]
    /\ UNCHANGED <<batchPc, samples_dir, dir_writers>>
    /\ UNCHANGED notBatch

\* Lines 31-104: the stages of main() write their files into the output
\* directory.
WorkerWrite(w) ==
    /\ worker_pc[w] = "main"
    /\ LET d == my_sample_output_dir(worker_sample[w])
       IN dir_writers' = [dir_writers EXCEPT ![d] = @ \cup {worker_sample[w]}]
    /\ worker_pc' = [worker_pc EXCEPT ![w] = "written"]
    /\ UNCHANGED <<batchPc, samples_dir, my_samples, worker_sample>>
    /\ UNCHANGED notBatch

\* main() returns; the worker is free again.
WorkerReturn(w) ==
    /\ worker_pc[w] = "written"
    /\ worker_pc' = [worker_pc EXCEPT ![w] = "idle"]
    /\ worker_sample' = [worker_sample EXCEPT ![w] = NoSample]
    /\ UNCHANGED <<batchPc, samples_dir, my_samples, dir_writers>>
    /\ UNCHANGED notBatch

\* starmap returns when every sample was processed.
PoolJoin ==
    /\ batchPc = "pool"
    /\ my_samples = {}
    /\ \A w \in Workers : worker_pc[w] = "idle"
    /\ batchPc' = "done"
    /\ UNCHANGED <<samples_dir, my_samples, worker_pc, worker_sample, dir_writers>>
    /\ UNCHANGED notBatch

WorkerStep == \E w \in Workers : WorkerMain(w) \/ WorkerWrite(w) \/ WorkerReturn(w)

OutputDirs == {my_sample_output_dir(s) : s \in {s \in FileNames : re_match(s)}}

BatchInit ==
    /\ batchPc = "start"
    /\ samples_dir \in SUBSET FileNames
    /\ my_samples = {}
    /\ worker_pc = [w \in Workers |-> "idle"]
    /\ worker_sample = [w \in Workers |-> NoSample]
    /\ dir_writers = [d \in OutputDirs |-> {}]

BatchIdle ==
    /\ batchPc = "idle"
    /\ samples_dir = {}
    /\ my_samples = {}
    /\ worker_pc = <<>>
    /\ worker_sample = <<>>
    /\ dir_writers = <<>>

(***************************************************************************)
(* Reference comparison (sshicstuff/core/statistics.py, compare_to_wt)     *)
(***************************************************************************)
MaxStatsRows == 2

CmpProbes == {"Probe_1", "Probe_2"}

\* The dsdna_norm_capture_efficiency cells: zero, positive, undefined.
CmpEfficiencies == {RInt(0), Rat(1, 2), RInt(2), NaN}

\* Statistics tables: one row per probe.
CmpTables ==
    {t \in UNION {[1..n -> [probe : CmpProbes, eff : CmpEfficiencies]] : n \in 0..MaxStatsRows} :
        \A i, j \in DOMAIN t : t[i].probe = t[j].probe => i = j}

\* Line 165: df_wt.loc[df_wt['probe'] == probe, ...].tolist(), the
\* reference cells of a probe.
wt_cells(wt, probe) ==
    LET rows == SelectSeq(wt, LAMBDA r : r.probe = probe)
    IN [i \in DOMAIN rows |-> rows[i].eff]

\* Lines 165-169: the cell of the new column for one row (the reference
\* has a cell for the probe).
vs_wt_cell(wt, row) ==
    LET wt_capture_eff == wt_cells(wt, row.probe)[1]
    IN IF RPos(wt_capture_eff) THEN RDiv(row.eff, wt_capture_eff) ELSE NaN

CompareToWt ==
    /\ cmpPc = "call"
    /\ IF \E i \in DOMAIN cmp_stats : wt_cells(cmp_wt, cmp_stats[i].probe) = <<>>
       THEN /\ cmpPc' = "raised"
            /\ cmp_error' = "IndexError"
            /\ UNCHANGED cmp_written
       ELSE /\ cmpPc' = "returned"
            /\ cmp_written' = [i \in DOMAIN cmp_stats |->
                                  [probe |-> cmp_stats[i].probe, eff |-> cmp_stats[i].eff,
                                   vs_wt |-> vs_wt_cell(cmp_wt, cmp_stats[i])]]
            /\ UNCHANGED cmp_error
    /\ UNCHANGED <<cmp_stats, cmp_wt>>
    /\ UNCHANGED notCmp

CmpInit ==
    /\ cmpPc = "call"
    /\ cmp_error = "none"
    /\ cmp_stats \in CmpTables
    /\ cmp_wt \in CmpTables
    /\ cmp_written = <<>>

CmpIdle ==
    /\ cmpPc = "idle"
    /\ cmp_error = "none"
    /\ cmp_stats = <<>>
    /\ cmp_wt = <<>>
    /\ cmp_written = <<>>

(***************************************************************************)
(* Legacy per-sample driver (sshic/pipeline.py, main)                      *)
(***************************************************************************)
\* The two output files main() tests with os.path.exists (lines 34, 45).
CachedFiles == {"_filtered.tsv", "_coverage_per_fragment.bedgraph"}

MainCall(at, name, bn, to) ==
    /\ mainPc = at
    /\ main_log' = Append(main_log, Stage(name, bn))
    /\ mainPc' = to
    /\ UNCHANGED <<main_files, binning_size_list, main_idx>>
    /\ UNCHANGED notMain

MainSkip(at, to) ==
    /\ mainPc = at
    /\ mainPc' = to
    /\ UNCHANGED <<main_files, binning_size_list, main_idx, main_log>>
    /\ UNCHANGED notMain

MainLoopPc(i) == IF i <= Len(binning_size_list) THEN "rebin_contacts" ELSE "aggregate_cen"

\* Lines 34-40.
MainFilter ==
    /\ mainPc = "filter"
    /\ IF "_filtered.tsv" \notin main_files
       THEN MainCall("filter", "filter_contacts", 0, "coverage")
       ELSE MainSkip("filter", "coverage")

\* Lines 45-50.
MainCoverage ==
    /\ mainPc = "coverage"
    /\ IF "_coverage_per_fragment.bedgraph" \notin main_files
       THEN MainCall("coverage", "coverage", 0, "organize_contacts")
       ELSE MainSkip("coverage", "organize_contacts")

\* Lines 55-57.
MainOrganizeContacts ==
    /\ mainPc = "organize_contacts"
    /\ MainCall("organize_contacts", "organize_contacts", 0, "get_stats")

\* Lines 64-67.
MainGetStats ==
    /\ mainPc = "get_stats"
    /\ MainCall("get_stats", "get_stats", 0, MainLoopPc(1))

\* Lines 72-76.
MainRebinContacts ==
    /\ mainPc = "rebin_contacts"
    /\ main_log' = Append(main_log, Stage("rebin_contacts", binning_size_list[main_idx]))
    /\ main_idx' = main_idx + 1
    /\ mainPc' = MainLoopPc(main_idx + 1)
    /\ UNCHANGED <<main_files, binning_size_list>>
    /\ UNCHANGED notMain

\* Lines 81-90.
MainAggregateCen ==
    /\ mainPc = "aggregate_cen"
    /\ MainCall("aggregate_cen", "aggregate_centromeres", 10000, "aggregate_telo")

\* Lines 95-104.
MainAggregateTelo ==
    /\ mainPc = "aggregate_telo"
    /\ MainCall("aggregate_telo", "aggregate_telomeres", 10000, "done")

MainInit ==
    /\ mainPc = "filter"
    /\ main_files \in SUBSET CachedFiles
    /\ binning_size_list \in BinLists
    /\ main_idx = 1
    /\ main_log = <<>>

MainIdle ==
    /\ mainPc = "idle"
    /\ main_files = {}
    /\ binning_size_list = <<>>
    /\ main_idx = 0
    /\ main_log = <<>>

(***************************************************************************)
(* Probe groups (utils.make_groups_of_probes and its callers)              *)
(***************************************************************************)
MaxGroups == 2

MaxGroupRows == 1

\* probes_to_fragments = dict(zip(probes, fragments))
prob2frag == [p \in {"Probe_a", "Probe_b"} |-> IF p = "Probe_a" THEN "1" ELSE "2"]

GroupNames == {"group_1", "group_2"}

\* The group files: one row per group name.
GroupTables ==
    {t \in UNION {[1..n -> [name : GroupNames,
                            probes : (SUBSET DOMAIN prob2frag) \ {{}},
                            action : {"average", "sum", "median"}]] : n \in 1..MaxGroups} :
        \A i, j \in DOMAIN t : t[i].name = t[j].name => i = j}

\* The per fragment columns of a profile before any group is made.
GroupContactTables ==
    UNION {[{"1", "2"} -> [1..n -> {RInt(0), RInt(1)}]] : n \in 1..MaxGroupRows}

\* Lines 75-81: the column of one group, row by row.
group_column(row, df) ==
    LET group_frags == SelectSeq(<<"1", "2">>,
                                 LAMBDA f : \E p \in row.probes : prob2frag[p] = f)
        n == Len(df["1"])
        cells(i) == [k \in DOMAIN group_frags |-> df[group_frags[k]][i]]
    IN [i \in 1..n |-> IF row.action = "average" THEN RMean(cells(i)) ELSE RSum(cells(i))]

\* make_groups_of_probes: a column per group whose action is 'average' or
\* 'sum'; any other action is skipped.
make_groups_of_probes(df_groups, df) ==
    LET made == {df_groups[k].name : k \in {k \in DOMAIN df_groups :
                                               df_groups[k].action \in {"average", "sum"}}}
    IN [c \in (DOMAIN df) \cup made |->
           IF c \in made
           THEN group_column(df_groups[CHOOSE k \in DOMAIN df_groups : df_groups[k].name = c], df)
           ELSE df[c]]

\* DataFrame.drop(columns=groups): KeyError when a label is not a column.
drop_raises(df, groups) == \E k \in DOMAIN groups : groups[k] \notin DOMAIN df

drop_columns(df, groups) == [c \in (DOMAIN df) \ Range(groups) |-> df[c]]

\* The group handling shared by rebin_contacts (lines 58-61, 96-98) and
\* aggregate (lines 71-74, 100-102): the group columns are dropped from the
\* table read, then made again on the result.
GroupCaller(at, to) ==
    /\ grpPc = at
    /\ LET groups == [k \in DOMAIN df_additional |-> df_additional[k].name]
       IN IF drop_raises(grp_table, groups)
          THEN /\ grpPc' = "raised"
               /\ grp_error' = "KeyError"
               /\ UNCHANGED grp_table
          ELSE /\ grpPc' = to
               /\ grp_table' = make_groups_of_probes(df_additional,
                                                     drop_columns(grp_table, groups))
               /\ UNCHANGED grp_error
    /\ UNCHANGED df_additional
    /\ UNCHANGED notGrp

\* profile_contacts, lines 245-248.
GroupProfileContacts ==
    /\ grpPc = "contacts"
    /\ grp_table' = make_groups_of_probes(df_additional, grp_table)
    /\ grpPc' = "profiled"
    /\ UNCHANGED <<grp_error, df_additional>>
    /\ UNCHANGED notGrp

GroupRebinContacts ==
    /\ grpPc = "profiled"
    /\ GroupCaller("profiled", "rebinned")

GroupAggregate ==
    /\ grpPc = "rebinned"
    /\ GroupCaller("rebinned", "aggregated")

GrpInit ==
    /\ grpPc = "contacts"
    /\ grp_error = "none"
    /\ df_additional \in GroupTables
    /\ grp_table \in GroupContactTables

GrpIdle ==
    /\ grpPc = "idle"
    /\ grp_error = "none"
    /\ df_additional = <<>>
    /\ grp_table = <<>>

(***************************************************************************)
(* Dashboard: update_graph (gui/browser.py) and rebin_live (binning.py)    *)
(***************************************************************************)
MaxPlotRows == 2

\* The genomes the dashboard is opened on: the coordinate table and the
\* fragment locations of the profile engine's genome, and the same
\* fragments with the short chromosome first.
PlotGenomes ==
    {[coords |-> CoordsFixture,
      locations |-> [k \in DOMAIN FragmentsFixture |->
                        [chr |-> FragmentsFixture[k].chr, start |-> FragmentsFixture[k].start,
                         sizes |-> FragmentsFixture[k].size]]],
     [coords |-> <<[chr |-> "chr1", length |-> 40], [chr |-> "chr2", length |-> 60]>>,
      locations |-> <<[chr |-> "chr1", start |-> 0,  sizes |-> 40],
                      [chr |-> "chr2", start |-> 0,  sizes |-> 20],
                      [chr |-> "chr2", start |-> 20, sizes |-> 30],
                      [chr |-> "chr2", start |-> 50, sizes |-> 10]>>]}

\* The fragment columns of the sample files and the capture table naming them.
PlotColumns == {0, 1}

PlotOligos ==
    <<[Oligo("chr1", 4, 8, "ss", "Probe_ss") EXCEPT !.fragment = 0],
      [Oligo("chr1", 30, 34, "ds", "Probe_ds") EXCEPT !.fragment = 1]>>

\* The contacts of a location with the two probe fragments.
PlotCells == {(0 :> 1 @@ 1 :> 0), (0 :> 0 @@ 1 :> 1), (0 :> 2 @@ 1 :> 1)}

\* The unbinned profiles of a genome: at most MaxPlotRows contacted
\* locations in genome order, each with a contact in some column.
SampleTables(g) ==
    LET table(S, v) ==
            LET idx == Ascending(S)
            IN [n \in 1..Len(idx) |->
                   [chr |-> g.locations[idx[n]].chr, start |-> g.locations[idx[n]].start,
                    sizes |-> g.locations[idx[n]].sizes,
                    genome_start |-> cumu_start(g.coords, g.locations[idx[n]].chr)
                                        + g.locations[idx[n]].start,
                    val |-> [f \in PlotColumns |-> RInt(v[idx[n]][f])]]]
    IN UNION {{table(S, v) : v \in [S -> PlotCells]} :
                 S \in {S \in SUBSET DOMAIN g.locations : Cardinality(S) <= MaxPlotRows}}

\* What the callback receives: the slider (in kb), the selected probe
\* columns, the region ("" when none is selected) and the typed bounds
\* (0 when the field is empty).
PlotInputs ==
    [binning_value : 0..MaxBinSize,
     probes_value : {<<>>, <<0>>, <<0, 1>>},
     region_value : {"", "chr1", "chr2"},
     start_pos : {0},
     end_pos : {0, 30}]

\* Line 330: df_samples[["chr", "start", "sizes", "genome_start"] + probes_value].
select_columns(df, probes_value) ==
    [i \in DOMAIN df |->
        [df[i] EXCEPT !.val = [f \in Range(probes_value) |-> df[i].val[f]]]]

\* Lines 323-325 and 343: df_chr_len["cumu_start"].max(), the greatest
\* cumulated start of a chromosome -- the summed lengths of all
\* chromosomes but the last.
cumu_start_max(coords) == SumInts([i \in 1..(Len(coords) - 1) |-> coords[i].length])

\* Lines 332-343: the bounds of the plot.
x_bounds(coords, in) ==
    IF in.region_value # ""
    THEN LET x_max_basal == coords[CHOOSE k \in DOMAIN coords :
                                      /\ coords[k].chr = in.region_value
                                      /\ \A j \in 1..(k - 1) : coords[j].chr # in.region_value].length
             x_max == IF in.end_pos # 0 THEN in.end_pos ELSE x_max_basal
         IN [x_min |-> in.start_pos,
             x_max |-> IF x_max > x_max_basal THEN x_max_basal ELSE x_max]
    ELSE [x_min |-> 0, x_max |-> cumu_start_max(coords)]

\* Lines 333 and 346: the rows of the region, then the rows whose
\* start is between the bounds.
filter_rows(df, coords, in) ==
    LET in_region == IF in.region_value # ""
                     THEN SelectSeq(df, LAMBDA r : r.chr = in.region_value)
                     ELSE df
        b == x_bounds(coords, in)
    IN SelectSeq(in_region, LAMBDA r : r.start >= b.x_min /\ r.start <= b.x_max)

\* rebin_live lines 114-116: the bins of a chromosome of length l.
n_bins_live(l, bin_size) == l \div bin_size + 1

\* rebin_live lines 111-125: the bin template.
rebin_live_template(coords, bin_size) == bins_concat(coords, bin_size, n_bins_live)

\* A split that gives the end bin the start bin's share.
rebin_live_pieces_swapped(r, b) ==
    LET end       == r.start + r.sizes
        start_bin == (r.start \div b) * b
        end_bin   == (end \div b) * b
        factor    == Rat(end - end_bin, r.sizes)
    IN IF start_bin # end_bin
       THEN <<[chr |-> r.chr, chr_bins |-> start_bin,
               val |-> [f \in DOMAIN r.val |-> RMul(r.val[f], factor)]],
              [chr |-> r.chr, chr_bins |-> end_bin,
               val |-> [f \in DOMAIN r.val |-> RMul(r.val[f], RSub(RInt(1), factor))]]>>
       ELSE <<[chr |-> r.chr, chr_bins |-> start_bin, val |-> r.val]>>

\* rebin_live lines 127-146: the rows an unbinned row turns into.
rebin_live_pieces(r, b) ==
    LET end       == r.start + r.sizes
        start_bin == (r.start \div b) * b
        end_bin   == (end \div b) * b
        correction_factor == Rat(end - end_bin, r.sizes)
    IN IF start_bin # end_bin
       THEN <<[chr |-> r.chr, chr_bins |-> start_bin,
               val |-> [f \in DOMAIN r.val |->
                           RMul(r.val[f], RSub(RInt(1), correction_factor))]],
              [chr |-> r.chr, chr_bins |-> end_bin,
               val |-> [f \in DOMAIN r.val |-> RMul(r.val[f], correction_factor)]]>>
       ELSE <<[chr |-> r.chr, chr_bins |-> start_bin, val |-> r.val]>>

\* rebin_live: the pieces summed per (chr, chr_bins) and merged onto the
\* template (lines 148-155); the left merge on the template fixes the
\* order of the rows, whatever the sort of line 152 made of the sums.
rebin_live(df, cols, coords, bin_size) ==
    merge_on_template(rebin_live_template(coords, bin_size),
                      FlatMap(df, LAMBDA r : rebin_live_pieces(r, bin_size)),
                      cols)

\* update_graph up to the table that is plotted (lines 314-350): nothing
\* is drawn without a selected probe; binning_value is in kb and is
\* converted to the unit of the coordinates.
UpdateGraph ==
    /\ plotPc = "ready"
    /\ IF plot_in.probes_value = <<>>
       THEN /\ plotPc' = "no_plot"
            /\ UNCHANGED <<plot_df, plot_binned>>
       ELSE LET df == filter_rows(select_columns(df_samples, plot_in.probes_value),
                                  plot_coords, plot_in)
            IN /\ plot_df' = df
               /\ plot_binned' = IF plot_in.binning_value > 0
                                 THEN rebin_live(df, Range(plot_in.probes_value), plot_coords,
                                                 plot_in.binning_value * BinUnit)
                                 ELSE df
               /\ plotPc' = "plotted"
    /\ UNCHANGED <<plot_coords, df_samples, plot_in, batch_binned>>
    /\ UNCHANGED notPlot

\* rebin_contacts run on the sample shown, at the resolution of the slider.
RebinSample ==
    /\ plotPc = "plotted"
    /\ plot_in.binning_value > 0
    /\ batch_binned' = binned_contacts(df_samples, PlotOligos, plot_coords,
                                       plot_in.binning_value * BinUnit)
    /\ plotPc' = "compared"
    /\ UNCHANGED <<plot_coords, df_samples, plot_in, plot_df, plot_binned>>
    /\ UNCHANGED notPlot

PlotInit ==
    /\ plotPc = "ready"
    /\ \E g \in PlotGenomes :
          /\ plot_coords = g.coords
          /\ df_samples \in SampleTables(g)
    /\ plot_in \in PlotInputs
    /\ plot_df = <<>>
    /\ plot_binned = <<>>
    /\ batch_binned = <<>>

PlotIdle ==
    /\ plotPc = "idle"
    /\ plot_coords = <<>>
    /\ df_samples = <<>>
    /\ plot_in = [binning_value |-> 0, probes_value |-> <<>>, region_value |-> "",
                  start_pos |-> 0, end_pos |-> 0]
    /\ plot_df = <<>>
    /\ plot_binned = <<>>
    /\ batch_binned = <<>>

(***************************************************************************)
(* Legacy driver: the serial and the pooled launch (sshic/pipeline.py)     *)
(***************************************************************************)
\* main()'s default for inter_normalization (line 23).
main_default_inter_normalization == TRUE

\* The command lines: the window sizes, --excluded-chr (absent, or a list
\* of names), and the two store_true switches (lines 140-160).
DriverArgs ==
    [binning_sizes_list : {<<10000>>},
     window_size_centros : {150000, 100000},
     window_size_telos : {150000},
     excluded_is_none : BOOLEAN,
     excluded_chr : {{}, {"chr2"}},
     exclude_probe_chr : BOOLEAN,
     inter_norm : BOOLEAN]

DriverSamples == {<<>>, <<"AD1.txt">>, <<"AD1.txt", "AD2.txt">>, <<"AD2.txt", "AD1.txt">>}

\* The parameters one call of main() runs with (lines 13-24).
main_parameters(samp, binning, wc, wt, none, excluded, epc, inter) ==
    [my_sample_sparse_file_path |-> samp, binning_size_list |-> binning,
     window_size_centromeres |-> wc, window_size_telomeres |-> wt,
     excluded_is_none |-> none, excluded_chr_list |-> excluded,
     excluded_probe_chr |-> epc, inter_normalization |-> inter]

\* Lines 184-194: the keyword call of the for loop; inter_normalization is
\* not among the keywords and takes main()'s default.
serial_call(samp, parsed) ==
    main_parameters(samp, parsed.binning_sizes_list, parsed.window_size_centros,
                    parsed.window_size_telos, parsed.excluded_is_none, parsed.excluded_chr,
                    parsed.exclude_probe_chr, main_default_inter_normalization)

\* Lines 170-180: the positional tuple handed to starmap.
pool_call(samp, parsed) ==
    main_parameters(samp, parsed.binning_sizes_list, parsed.window_size_centros,
                    parsed.window_size_telos, parsed.excluded_is_none, parsed.excluded_chr,
                    parsed.exclude_probe_chr, parsed.inter_norm)

\* threads <= 1, lines 183-194: one iteration of the loop.
SerialMain ==
    /\ serial_idx <= Len(drv_samples)
    /\ serial_calls' = Append(serial_calls, serial_call(drv_samples[serial_idx], drv_args))
    /\ serial_idx' = serial_idx + 1
    /\ UNCHANGED <<drv_args, drv_samples, pool_pc, pool_calls>>
    /\ UNCHANGED notDrv

\* threads > 1, lines 167-180: starmap over the samples, joined.
PoolStarmap ==
    /\ pool_pc = "start"
    /\ pool_calls' = [i \in DOMAIN drv_samples |-> pool_call(drv_samples[i], drv_args)]
    /\ pool_pc' = "joined"
    /\ UNCHANGED <<drv_args, drv_samples, serial_idx, serial_calls>>
    /\ UNCHANGED notDrv

\* The same command line and the same samples directory, run once with
\* --threads 1 and once with --threads 2.
DrvInit ==
    /\ drv_args \in {a \in DriverArgs : a.excluded_is_none => a.excluded_chr = {}}
    /\ drv_samples \in DriverSamples
    /\ serial_idx = 1
    /\ serial_calls = <<>>
    /\ pool_pc = "start"
    /\ pool_calls = <<>>

DrvIdle ==
    /\ drv_args = [binning_sizes_list |-> <<>>, window_size_centros |-> 0,
                   window_size_telos |-> 0, excluded_is_none |-> TRUE, excluded_chr |-> {},
                   exclude_probe_chr |-> FALSE, inter_norm |-> FALSE]
    /\ drv_samples = <<>>
    /\ serial_idx = 1
    /\ serial_calls = <<>>
    /\ pool_pc = "idle"
    /\ pool_calls = <<>>

(***************************************************************************)
(* Specifications                                                          *)
(***************************************************************************)
InitCli ==
    /\ CliInit
    /\ PipeIdle /\ BinsIdle /\ ProfIdle /\ SortIdle /\ AssocIdle /\ AggIdle
    /\ NfrIdle /\ BatchIdle /\ CmpIdle /\ MainIdle /\ GrpIdle /\ PlotIdle
    /\ DrvIdle

NextCli ==
    \/ SubsampleExecute
    \/ GenomakerExecute
    \/ AssociateExecute
    \/ HiconlyExecute
    \/ FilterExecute
    \/ CoverageExecute
    \/ ProfileExecute
    \/ RebinExecute
    \/ StatsExecute
    \/ AggregateExecute
    \/ CompareExecute
    \/ ViewExecute
    \/ PlotExecute
    \/ PipelineExecute

SpecCli == InitCli /\ [][NextCli]_vars

InitPipeline ==
    /\ PipeInit
    /\ CliIdle /\ BinsIdle /\ ProfIdle /\ SortIdle /\ AssocIdle /\ AggIdle
    /\ NfrIdle /\ BatchIdle /\ CmpIdle /\ MainIdle /\ GrpIdle /\ PlotIdle
    /\ DrvIdle

NextPipeline ==
    \/ PipeAssociate
    \/ PipeDsdnaOnly
    \/ PipeCoverageDsdna
    \/ PipeSsdnaOnly
    \/ PipeCoverageSsdna
    \/ PipeFilter
    \/ PipeCoverageAll
    \/ PipeProfile
    \/ PipeStats
    \/ PipeRebinContacts
    \/ PipeRebinFrequencies
    \/ PipeAggregateCen
    \/ PipeAggregateTelo

SpecPipeline == InitPipeline /\ [][NextPipeline]_vars

InitBins ==
    /\ BinsInit
    /\ CliIdle /\ PipeIdle /\ ProfIdle /\ SortIdle /\ AssocIdle /\ AggIdle
    /\ NfrIdle /\ BatchIdle /\ CmpIdle /\ MainIdle /\ GrpIdle /\ PlotIdle
    /\ DrvIdle

NextBins ==
    \/ BuildBins
    \/ BuildBinsLegacy

SpecBins == InitBins /\ [][NextBins]_vars

InitProfile ==
    /\ ProfInit
    /\ CliIdle /\ PipeIdle /\ BinsIdle /\ SortIdle /\ AssocIdle /\ AggIdle
    /\ NfrIdle /\ BatchIdle /\ CmpIdle /\ MainIdle /\ GrpIdle /\ PlotIdle
    /\ DrvIdle

NextProfile ==
    \/ FilterContacts
    \/ ProfileContacts
    \/ RebinContacts
    \/ RebinContactsLegacy
    \/ GetStats

SpecProfile == InitProfile /\ [][NextProfile]_vars

InitSort ==
    /\ SortInit
    /\ CliIdle /\ PipeIdle /\ BinsIdle /\ ProfIdle /\ AssocIdle /\ AggIdle
    /\ NfrIdle /\ BatchIdle /\ CmpIdle /\ MainIdle /\ GrpIdle /\ PlotIdle
    /\ DrvIdle

NextSort == SortByChr

SpecSort == InitSort /\ [][NextSort]_vars

InitAssoc ==
    /\ AssocInit
    /\ CliIdle /\ PipeIdle /\ BinsIdle /\ ProfIdle /\ SortIdle /\ AggIdle
    /\ NfrIdle /\ BatchIdle /\ CmpIdle /\ MainIdle /\ GrpIdle /\ PlotIdle
    /\ DrvIdle

NextAssoc == Associate

SpecAssoc == InitAssoc /\ [][NextAssoc]_vars

InitAgg ==
    /\ AggInit
    /\ CliIdle /\ PipeIdle /\ BinsIdle /\ ProfIdle /\ SortIdle /\ AssocIdle
    /\ NfrIdle /\ BatchIdle /\ CmpIdle /\ MainIdle /\ GrpIdle /\ PlotIdle
    /\ DrvIdle

NextAgg ==
    \/ Aggregate
    \/ AggregateLegacy

SpecAgg == InitAgg /\ [][NextAgg]_vars

InitNfr ==
    /\ NfrInit
    /\ CliIdle /\ PipeIdle /\ BinsIdle /\ ProfIdle /\ SortIdle /\ AssocIdle
    /\ AggIdle /\ BatchIdle /\ CmpIdle /\ MainIdle /\ GrpIdle /\ PlotIdle
    /\ DrvIdle

NextNfr == GetNfrContacts

SpecNfr == InitNfr /\ [][NextNfr]_vars

InitBatch ==
    /\ BatchInit
    /\ CliIdle /\ PipeIdle /\ BinsIdle /\ ProfIdle /\ SortIdle /\ AssocIdle
    /\ AggIdle /\ NfrIdle /\ CmpIdle /\ MainIdle /\ GrpIdle /\ PlotIdle
    /\ DrvIdle

NextBatch ==
    \/ ListSamples
    \/ WorkerStep
    \/ PoolJoin

SpecBatch == InitBatch /\ [][NextBatch]_vars

InitCompare ==
    /\ CmpInit
    /\ CliIdle /\ PipeIdle /\ BinsIdle /\ ProfIdle /\ SortIdle /\ AssocIdle
    /\ AggIdle /\ NfrIdle /\ BatchIdle /\ MainIdle /\ GrpIdle /\ PlotIdle
    /\ DrvIdle

NextCompare == CompareToWt

SpecCompare == InitCompare /\ [][NextCompare]_vars

InitMain ==
    /\ MainInit
    /\ CliIdle /\ PipeIdle /\ BinsIdle /\ ProfIdle /\ SortIdle /\ AssocIdle
    /\ AggIdle /\ NfrIdle /\ BatchIdle /\ CmpIdle /\ GrpIdle /\ PlotIdle
    /\ DrvIdle

NextMain ==
    \/ MainFilter
    \/ MainCoverage
    \/ MainOrganizeContacts
    \/ MainGetStats
    \/ MainRebinContacts
    \/ MainAggregateCen
    \/ MainAggregateTelo

SpecMain == InitMain /\ [][NextMain]_vars

InitGroups ==
    /\ GrpInit
    /\ CliIdle /\ PipeIdle /\ BinsIdle /\ ProfIdle /\ SortIdle /\ AssocIdle
    /\ AggIdle /\ NfrIdle /\ BatchIdle /\ CmpIdle /\ MainIdle /\ PlotIdle
    /\ DrvIdle

NextGroups ==
    \/ GroupProfileContacts
    \/ GroupRebinContacts
    \/ GroupAggregate

SpecGroups == InitGroups /\ [][NextGroups]_vars

InitPlot ==
    /\ PlotInit
    /\ CliIdle /\ PipeIdle /\ BinsIdle /\ ProfIdle /\ SortIdle /\ AssocIdle
    /\ AggIdle /\ NfrIdle /\ BatchIdle /\ CmpIdle /\ MainIdle /\ GrpIdle
    /\ DrvIdle

NextPlot ==
    \/ UpdateGraph
    \/ RebinSample

SpecPlot == InitPlot /\ [][NextPlot]_vars

InitDriver ==
    /\ DrvInit
    /\ CliIdle /\ PipeIdle /\ BinsIdle /\ ProfIdle /\ SortIdle /\ AssocIdle
    /\ AggIdle /\ NfrIdle /\ BatchIdle /\ CmpIdle /\ MainIdle /\ GrpIdle
    /\ PlotIdle

NextDriver ==
    \/ SerialMain
    \/ PoolStarmap

SpecDriver == InitDriver /\ [][NextDriver]_vars

(***************************************************************************)
(* Claims                                                                  *)
(***************************************************************************)
IsPrefix(s, t) == Len(s) <= Len(t) /\ \A i \in DOMAIN s : s[i] = t[i]

SomeCheckedPathMissing ==
    \E i \in DOMAIN CheckedPaths(command) : CheckedPaths(command)[i] \notin exists

\* C1: whenever execute() has run and at least one of the paths handed to
\* check_exists does not exist -- at any position of the argument list --
\* it has failed with a logged FileNotFoundError and called no engine
\* function.
C1_MissingPathAlwaysFails ==
    (cliPc \in {"returned", "raised"} /\ SomeCheckedPathMissing)
        => /\ raised = "FileNotFoundError"
           /\ errlog # <<>>
           /\ engine_calls = <<>>

\* C2: Aggregate.execute never calls methods.aggregate when --cen and --tel
\* are both set or both unset, and once the preflight has passed it raises
\* the logged ValueError in that case; when exactly one of them is set (and
\* the preflight has passed) it makes exactly one call to methods.aggregate,
\* with that mode.
C2_AggregateModeEnforced ==
    (command = "aggregate" /\ cliPc \in {"returned", "raised"}) =>
        LET cen == args.flags["--cen"]
            tel == args.flags["--tel"]
        IN /\ (cen = tel) =>
                 /\ engine_calls = <<>>
                 /\ cliPc = "raised"
                 /\ raised # "FileNotFoundError" =>
                        (raised = "ValueError" /\ Len(errlog) = 2)
           /\ (cen # tel /\ raised # "FileNotFoundError") =>
                 /\ cliPc = "returned"
                 /\ raised = "none"
                 /\ engine_calls = <<[fn |-> "methods.aggregate",
                                      telomeres |-> tel, centromeres |-> cen]>>

C2_Witness ==
    /\ command = "aggregate"
    /\ args.flags["--cen"] /\ args.flags["--tel"]
    /\ raised = "ValueError"
    /\ engine_calls = <<>>

\* The order of engine calls full_pipeline is documented to follow.
C3_RebinOrder(bins) ==
    IF bins = <<>> THEN <<>>
    ELSE LET RECURSIVE R(_)
             R(i) == IF i > Len(bins) THEN <<>>
                     ELSE <<Stage("rebin_contacts", bins[i]),
                            Stage("rebin_frequencies", bins[i])>> \o R(i + 1)
         IN R(1)

C3_Order ==
    <<Stage("associate_oligo_to_frag", 0),
      Stage("sparse_with_dsdna_only", 0), Stage("coverage_dsdna", 0),
      Stage("sparse_with_ssdna_only", 0), Stage("coverage_ssdna", 0),
      Stage("filter_contacts", 0), Stage("coverage_all", 0),
      Stage("profile_contacts", 0), Stage("get_stats", 0)>>
    \o C3_RebinOrder(bin_sizes)
    \o <<Stage("aggregate_centromeres", cen_aggregated_binning),
         Stage("aggregate_telomeres", telo_agg_binning)>>

\* C3: at every point of a run the stages invoked so far are a prefix of
\* the documented order (so none is skipped, repeated or out of place), and
\* a finished run has invoked exactly that sequence.
C3_StrictStageOrder ==
    pipePc # "idle" =>
        /\ IsPrefix(stage_log, C3_Order)
        /\ pipePc = "done" => stage_log = C3_Order

C3_Witness ==
    /\ pipePc = "done"
    /\ Len(bin_sizes) = 2
    /\ bin_sizes[1] # bin_sizes[2]
    /\ Len(stage_log) = 15

\* The rows of a bin table that belong to chromosome c, in table order.
C4_RowsOf(c) == SelectSeq(bins_out, LAMBDA r : r.chr = c)

\* C4: for every chromosome of length L of the coordinate table and the bin
\* size B of the call, the table holds exactly n bins of that chromosome
\* with (n-1)*B <= L < n*B, i.e. n = floor(L/B)+1, and their starts are
\* 0, B, 2B, ..., (n-1)*B = floor(L/B)*B, in this order.
C4_BinsPerChromosome ==
    bins_gen \in {"sshicstuff", "sshic"} =>
        \A i \in DOMAIN bins_coords :
            LET L    == bins_coords[i].length
                B    == bins_size
                rows == C4_RowsOf(bins_coords[i].chr)
                n    == Len(rows)
            IN /\ n >= 1
               /\ (n - 1) * B <= L
               /\ L < n * B
               /\ \A k \in 1..n : rows[k].chr_bins = (k - 1) * B

C4_Witness ==
    /\ bins_gen = "sshic"
    /\ bins_size = 2
    /\ Len(bins_coords) = 2
    /\ bins_coords[1].length = 4
    /\ bins_coords[2].length = 5
    /\ Len(bins_out) = 6

\* The probe fragment columns of the sample's tables.
ProbeColumns == Range(fragments_of(df_oligos))

\* The rows of the unbinned profile lie on chromosomes of the coordinate
\* table and do not run past the chromosome's end.
C5_RowsInsideGenome ==
    \A i \in DOMAIN df_unbinned :
        \E k \in DOMAIN df_coords :
            /\ df_coords[k].chr = df_unbinned[i].chr
            /\ df_unbinned[i].start + df_unbinned[i].sizes <= df_coords[k].length

\* C5: rebinning conserves contacts -- for either generation of
\* rebin_contacts and any bin size, each probe fragment's binned contacts
\* column sums to what its unbinned column sums to, rows crossing a bin
\* edge and rows longer than a bin included.
C5_RebinConservesContacts ==
    (profPc \in {"rebinned", "rebinned_legacy"} /\ C5_RowsInsideGenome)
        => \A f \in ProbeColumns :
              RSum(column(df_binned_contacts, f)) = RSum(column(df_unbinned, f))

\* A rebinned profile in which a row carrying contacts is longer than the
\* bin, crosses a bin edge and is split between two bins.
C5_Witness ==
    /\ profPc = "rebinned"
    /\ \E i \in DOMAIN df_unbinned, f \in ProbeColumns :
          /\ RPos(df_unbinned[i].val[f])
          /\ df_unbinned[i].sizes > rebin_size
          /\ (df_unbinned[i].start + df_unbinned[i].sizes) % rebin_size # 0
          /\ df_unbinned[i].start \div rebin_size
                # (df_unbinned[i].start + df_unbinned[i].sizes) \div rebin_size

\* A frequency table normalised against its contacts table: a column of
\* positive total sums to 1, a column of total 0 is all zero or undefined.
ColumnsNormalised(contacts, freq) ==
    /\ Len(freq) = Len(contacts)
    /\ \A f \in ProbeColumns :
          IF RPos(RSum(column(contacts, f)))
          THEN RSum(column(freq, f)) = RInt(1)
          ELSE \A i \in DOMAIN freq : freq[i].val[f] \in {RInt(0), NaN}

\* C6: frequency normalisation is a partition of unity -- in the unbinned
\* profile and in the binned profile every probe fragment column of
\* positive total has a frequency column summing to 1, a column of total 0
\* stays zero or undefined, and the run has not failed.
C6_FrequenciesSumToOne ==
    /\ profPc \in {"profiled", "rebinned", "rebinned_legacy", "stats"}
          => (ColumnsNormalised(df_unbinned, df_frequencies) /\ prof_error = "none")
    /\ profPc \in {"rebinned", "rebinned_legacy"}
          => (ColumnsNormalised(df_binned_contacts, df_binned_freq) /\ prof_error = "none")

\* A binned profile with one column spread over several bins and another
\* column without any contact.
C6_Witness ==
    /\ profPc = "rebinned"
    /\ \E f \in ProbeColumns :
          /\ Cardinality({i \in DOMAIN df_binned_contacts :
                             RPos(df_binned_contacts[i].val[f])}) >= 2
          /\ Cardinality({i \in DOMAIN df_unbinned : RPos(df_unbinned[i].val[f])}) >= 2
    /\ \E g \in ProbeColumns : RSum(column(df_binned_contacts, g)) = RInt(0)

\* The rank the canonical order gives a name: its position in the list,
\* one past the list for a name the list does not hold.
C7_Rank(x) == chr_code(x)

\* C7: sort_by_chr returns the rows in the canonical chromosome order with
\* the rows of unlisted chromosomes after all listed ones, each row under
\* its original chromosome name.
C7_UnknownChromosomesSortLast ==
    sortPc # "call"
        => /\ sort_error = "none"
           /\ Len(sort_out) = Len(sort_df)
           /\ \A n \in SortNames :
                 Cardinality({i \in DOMAIN sort_out : sort_out[i] = n})
                    = Cardinality({i \in DOMAIN sort_df : sort_df[i] = n})
           /\ \A i, j \in DOMAIN sort_out :
                 i < j => C7_Rank(sort_out[i]) <= C7_Rank(sort_out[j])

\* The call on [chr3, chr1, 2_micron, chr16, unknownX] has raised.
C7_ExampleRaises ==
    /\ sort_df = <<"chr3", "chr1", "2_micron", "chr16", "unknownX">>
    /\ sortPc = "raised"
    /\ sort_error = "IndexError"

\* C8: in the statistics table a probe with at least one contact has
\* cis + trans = 1 and intra_chr + inter_chr = 1, and a probe without
\* contact has the four fractions at 0.
C8_FractionsComplement ==
    profPc = "stats"
        => \A i \in DOMAIN df_stats :
              IF RPos(df_stats[i].contacts)
              THEN /\ RAdd(df_stats[i].cis, df_stats[i].trans) = RInt(1)
                   /\ RAdd(df_stats[i].intra_chr, df_stats[i].inter_chr) = RInt(1)
              ELSE /\ df_stats[i].cis = RInt(0)
                   /\ df_stats[i].trans = RInt(0)
                   /\ df_stats[i].intra_chr = RInt(0)
                   /\ df_stats[i].inter_chr = RInt(0)

\* A statistics table with a probe whose contacts are partly cis, partly
\* on another chromosome, next to a probe without contact.
C8_Witness ==
    /\ profPc = "stats"
    /\ \E i \in DOMAIN df_stats :
          /\ RPos(df_stats[i].contacts)
          /\ RPos(df_stats[i].cis) /\ RPos(df_stats[i].trans)
          /\ RPos(df_stats[i].inter_chr) /\ RPos(df_stats[i].intra_chr)
    /\ \E j \in DOMAIN df_stats : df_stats[j].contacts = RInt(0)

\* The midpoint of the probe interval.
C9_Midpoint == IntHalf(2 * assoc_oligo.start + (assoc_oligo.end - assoc_oligo.start))

\* C9: the association selects, among the fragments of the probe's
\* chromosome, the one with the greatest start at or before the midpoint
\* of the probe interval, whose interval then contains the midpoint --
\* a midpoint equal to a fragment start or inside the first fragment
\* included.
C9_FloorMatchOnMidpoint ==
    assocPc = "returned"
        => \E k \in DOMAIN assoc_fragments :
              /\ assoc_fragments[k].chr = assoc_oligo.chr
              /\ assoc_fragments[k].frag = assoc_result.fragment
              /\ assoc_fragments[k].start = assoc_result.fragment_start
              /\ assoc_fragments[k].end = assoc_result.fragment_end
              /\ assoc_fragments[k].start <= C9_Midpoint
              /\ C9_Midpoint < assoc_fragments[k].end
              /\ \A j \in DOMAIN assoc_fragments :
                    (assoc_fragments[j].chr = assoc_oligo.chr
                        /\ assoc_fragments[j].start <= C9_Midpoint)
                    => assoc_fragments[j].start <= assoc_fragments[k].start

\* The probe whose midpoint is the start of the second of the fragments
\* [0,5), [5,6), [6,7) has been given the first one.
C9_MidpointOnFragmentStart ==
    /\ assocPc = "returned"
    /\ assoc_oligo.chr = "chr1"
    /\ [i \in 1..3 |-> <<assoc_fragments[i].start, assoc_fragments[i].end>>]
          = <<(<<0, 5>>), (<<5, 6>>), (<<6, 7>>)>>
    /\ C9_Midpoint = 5
    /\ assoc_result.fragment_start = 0

\* The rows of the per chromosome table at the offset bin d.
C10_RowsAt(d) == SelectSeq(df_grouped, LAMBDA g : g.chr_bins = d)

\* Those of chromosomes other than the one the probe of column f was
\* designed on.
C10_OtherRowsAt(d, f) ==
    SelectSeq(df_grouped, LAMBDA g : g.chr_bins = d /\ g.chr # probe_chr_ori(agg_probes, f))

\* The number of rows that count in the mean of column f at offset d.
C10_Denominator(d, f) ==
    Len(SelectSeq(C10_RowsAt(d), LAMBDA g : ~IsNaN(g.val[f])))

\* C10: with the probe's own chromosome excluded, the aggregated mean of
\* a probe fragment at an offset bin is the mean over the retained
\* chromosomes other than the probe's: the own chromosome's bins add
\* nothing to the sum and are not counted in the denominator, which is the
\* number of chromosomes present at that offset minus the own one.
C10_OwnChromosomeExcluded ==
    ((aggPc = "written" /\ agg_opts.exclude_probe_chr) \/ aggPc = "written_legacy")
        => \A f \in unique_fragments(agg_probes) :
              /\ \A k \in DOMAIN df_grouped :
                    df_grouped[k].chr = probe_chr_ori(agg_probes, f)
                        => IsNaN(df_grouped[k].val[f])
              /\ \A n \in DOMAIN df_aggregated_mean :
                    LET d      == df_aggregated_mean[n].chr_bins
                        others == C10_OtherRowsAt(d, f)
                        cells  == [k \in DOMAIN others |-> others[k].val[f]]
                    IN /\ df_aggregated_mean[n].val[f]
                             = (IF \A k \in DOMAIN cells : IsNaN(cells[k]) THEN NaN
                                ELSE RDiv(RSum(cells), RInt(Len(others))))
                       /\ (\E k \in DOMAIN cells : ~IsNaN(cells[k]))
                             => C10_Denominator(d, f) = Len(others)

\* An aggregation around centromeres, own chromosome excluded, in which
\* the probe has contacts on its own chromosome and on another one at
\* the same offset, where three chromosomes are present and two count.
C10_Witness ==
    /\ aggPc = "written"
    /\ agg_opts.exclude_probe_chr
    /\ agg_opts.on = "centromeres"
    /\ ~agg_opts.inter_normalization
    /\ \E n \in DOMAIN df_aggregated_mean :
          LET d == df_aggregated_mean[n].chr_bins
          IN /\ Len(C10_RowsAt(d)) = 3
             /\ C10_Denominator(d, AggFragment) = 2
             /\ RPos(df_aggregated_mean[n].val[AggFragment])
             /\ \E i \in DOMAIN agg_contacts :
                   /\ agg_contacts[i].chr = probe_chr_ori(agg_probes, AggFragment)
                   /\ RPos(agg_contacts[i].val[AggFragment])
                   /\ Abs(agg_contacts[i].chr_bins
                            - (centros_of(agg_centros, agg_contacts[i].chr).left_arm_length
                                  \div CenMargin) * CenMargin) = d

\* The fragments the joins of filter_contacts treat as probe fragments: the
\* fragments on which starts_match places an oligo of the capture table.
C11_ProbeFragments ==
    {df_fragments[k].frag : k \in {k \in DOMAIN df_fragments :
        \E i \in DOMAIN df_oligos :
            /\ df_oligos[i].chr = df_fragments[k].chr
            /\ starts_match_row(df_fragments, df_oligos[i]) = <<df_fragments[k].start>>}}

C11_Data(r) == <<r.frag_a, r.frag_b, r.contacts>>

C12_NonExcluded ==
    {i - 1 : i \in {i \in DOMAIN nfr_fragments :
        nfr_fragments[i].chrom \notin {"2_micron", "mitochondrion", "chr_artificial"}}}

\* The nucleosome intervals fragment uid is inside of, under the mode of
\* the call.
C12_Intervals(uid) ==
    {n \in Range(nfr_nucleosomes) :
        /\ n.chrom = nfr_fragments[uid + 1].chrom
        /\ in_nfr(filter_mode, [start_pos |-> nfr_fragments[uid + 1].start_pos,
                                end_pos |-> nfr_fragments[uid + 1].end_pos,
                                start |-> n.start, end |-> n.end])}

\* C12: in each of the four modes get_nfr_contacts splits the non-excluded
\* fragments into an 'in' list and an 'out' list that are disjoint and whose
\* sizes sum to the number of non-excluded fragments; a fragment inside
\* several nucleosome intervals is listed once.
C12_InOutPartition ==
    nfrPc = "returned" =>
        /\ filter_mode \in FilterModes
        /\ Range(df_fragments_in_nfr) \cap Range(df_fragments_out_nfr) = {}
        /\ Len(df_fragments_in_nfr) + Len(df_fragments_out_nfr) = Cardinality(C12_NonExcluded)
        /\ Range(df_fragments_in_nfr) \cup Range(df_fragments_out_nfr) = C12_NonExcluded
        /\ \A i, j \in DOMAIN df_fragments_in_nfr :
              df_fragments_in_nfr[i] = df_fragments_in_nfr[j] => i = j
        /\ \A uid \in C12_NonExcluded :
              uid \in Range(df_fragments_in_nfr) <=> C12_Intervals(uid) # {}

\* A split with a fragment inside two nucleosome intervals, a fragment
\* outside of all of them and a fragment of an excluded chromosome.
C12_Witness ==
    /\ nfrPc = "returned"
    /\ \E uid \in Range(df_fragments_in_nfr) : Cardinality(C12_Intervals(uid)) >= 2
    /\ df_fragments_out_nfr # <<>>
    /\ Cardinality(C12_NonExcluded) < Len(nfr_fragments)

\* C13: input files are never mutated -- filter_contacts leaves the oligo
\* capture table, the fragment list and the sparse matrix with the content
\* they had before the call, whether it completes or fails.
C13_InputsNeverMutated ==
    [][profPc = "inputs" =>
          /\ df_oligos' = df_oligos
          /\ df_fragments' = df_fragments
          /\ df_sparse' = df_sparse]_vars

\* C14: no two workers of the pool ever write into the same output
\* directory -- two workers that are inside main() at the same time, on two
\* different sample files, have different output directories.
C14_WorkersOwnTheirDirectory ==
    \A w1, w2 \in Workers :
        (/\ w1 # w2
         /\ worker_pc[w1] # "idle"
         /\ worker_pc[w2] # "idle")
            => my_sample_output_dir(worker_sample[w1]) # my_sample_output_dir(worker_sample[w2])

\* C15: compare_to_wt completes for any sample and reference statistics
\* tables; each sample probe present in the reference gets the ratio
\* sample efficiency / reference efficiency when the reference value is
\* strictly positive and a missing value otherwise, and a sample probe
\* without a reference row gets no ratio.
C15_CompareCompletes ==
    cmpPc # "call" =>
        /\ cmpPc = "returned"
        /\ cmp_error = "none"
        /\ Len(cmp_written) = Len(cmp_stats)
        /\ \A i \in DOMAIN cmp_written :
              LET ref == {j \in DOMAIN cmp_wt : cmp_wt[j].probe = cmp_stats[i].probe}
              IN /\ cmp_written[i].probe = cmp_stats[i].probe
                 /\ IF \E j \in ref : RPos(cmp_wt[j].eff)
                    THEN \E j \in ref : cmp_written[i].vs_wt = RDiv(cmp_stats[i].eff, cmp_wt[j].eff)
                    ELSE cmp_written[i].vs_wt = NaN

\* C16: the Hi-C only matrix is the complement of the filtered table --
\* every data row of the sparse matrix is in exactly one of the two outputs
\* of filter_contacts.
C16_HicOnlyIsComplement ==
    profPc \notin {"idle", "inputs", "failed"} =>
        \A i \in DOMAIN df_sparse :
            LET in_filtered == \E k \in DOMAIN df_contacts_filtered :
                                   C11_Data(df_contacts_filtered[k]) = C11_Data(df_sparse[i])
                in_hic_only == \E k \in DOMAIN df_contacts_hic_only.rows :
                                   df_contacts_hic_only.rows[k] = df_sparse[i]
            IN in_filtered # in_hic_only

\* C17: the pipeline subcommand given only its four required flags, all
\* naming existing files, reaches full_pipeline -- no option that was not
\* given on the command line makes a conversion fail.
C17_RequiredFlagsSuffice ==
    (/\ command = "pipeline"
     /\ cliPc \in {"returned", "raised"}
     /\ Range(CheckedPaths("pipeline")) \subseteq exists
     /\ \A o \in OptionalInts("pipeline") : args.opts[o] = None)
        => /\ cliPc = "returned"
           /\ raised = "none"
           /\ Len(engine_calls) = 1
           /\ engine_calls[1].fn = "pip.full_pipeline"

C18_Ran(name) == \E i \in DOMAIN main_log : main_log[i].stage = name

\* C18: in the legacy per-sample driver the filter stage is skipped if and
\* only if the filtered-contacts file already exists, and it is the only
\* stage that depends on a file existing: coverage, contact organization,
\* statistics, every rebin and both aggregations run on every invocation.
C18_OnlyFilterIsCached ==
    mainPc = "done" =>
        /\ C18_Ran("filter_contacts") <=> "_filtered.tsv" \notin main_files
        /\ C18_Ran("coverage")
        /\ C18_Ran("organize_contacts")
        /\ C18_Ran("get_stats")
        /\ \A k \in DOMAIN binning_size_list :
              \E i \in DOMAIN main_log :
                  main_log[i] = Stage("rebin_contacts", binning_size_list[k])
        /\ C18_Ran("aggregate_centromeres")
        /\ C18_Ran("aggregate_telomeres")

\* The (chromosome, offset) pairs of the per chromosome table.
C19_GroupedBins == {<<df_grouped[k].chr, df_grouped[k].chr_bins>> : k \in DOMAIN df_grouped}

\* C19: in centromere mode a bin of a chromosome is retained if and only
\* if left_arm_length - window - 10,000 <= bin < left_arm_length + window:
\* the per chromosome table holds the offsets of exactly these bins.
C19_WindowLowerBoundInclusive ==
    (aggPc = "written" /\ agg_opts.on = "centromeres") =>
        C19_GroupedBins =
            {<<agg_contacts[i].chr,
               Abs(agg_contacts[i].chr_bins
                     - (centros_of(agg_centros, agg_contacts[i].chr).left_arm_length
                           \div CenMargin) * CenMargin)>> :
                i \in {i \in DOMAIN agg_contacts :
                    LET left == centros_of(agg_centros, agg_contacts[i].chr).left_arm_length
                    IN /\ agg_contacts[i].chr \notin agg_opts.excluded_chr_list
                       /\ left - agg_opts.window_size - 10000 <= agg_contacts[i].chr_bins
                       /\ agg_contacts[i].chr_bins < left + agg_opts.window_size}}

\* The multiples of 10 kb nearest to the distance d (two of them when d is
\* half way).
C20_Nearest(d) ==
    LET grid == {k * 10000 : k \in 0..((d \div 10000) + 1)}
    IN {m \in grid : \A n \in grid : Abs(d - m) <= Abs(d - n)}

\* The offsets a bin of the profile is recentred to when every retained bin
\* goes to its distance from the reference point rounded to the nearest
\* 10 kb; the windows are those of lines 106-108 and 116-120.
C20_Offsets(r) ==
    LET c == centros_of(agg_centros, r.chr)
        w == agg_opts.window_size
    IN IF agg_opts.on = "centromeres"
       THEN IF /\ r.chr_bins > c.left_arm_length - w - 10000
               /\ r.chr_bins < c.left_arm_length + w
            THEN C20_Nearest(Abs(r.chr_bins - c.left_arm_length)) ELSE {}
       ELSE (IF r.chr_bins < w + 10000 THEN {r.chr_bins} ELSE {})
            \cup (IF r.chr_bins > c.length - w - 10000
                  THEN C20_Nearest(Abs(r.chr_bins - c.length)) ELSE {})

\* C20: each retained bin is recentred to the absolute distance between
\* the bin and the reference point (left_arm_length around centromeres,
\* the chromosome length for the right telomere) rounded to the nearest
\* multiple of 10 kb -- the contacts of a retained bin are found, in the
\* per chromosome table, at that offset.
C20_RecentredToNearest10kb ==
    (aggPc = "written" /\ ~agg_opts.exclude_probe_chr) =>
        \A i \in DOMAIN agg_contacts :
            (/\ agg_contacts[i].chr \notin agg_opts.excluded_chr_list
             /\ RPos(agg_contacts[i].val[AggFragment])
             /\ C20_Offsets(agg_contacts[i]) # {})
                => \E k \in DOMAIN df_grouped :
                      /\ df_grouped[k].chr = agg_contacts[i].chr
                      /\ df_grouped[k].chr_bins \in C20_Offsets(agg_contacts[i])
                      /\ RPos(df_grouped[k].val[AggFragment])

\* C21: aggregate fails with the ValueError naming the missing 'category'
\* column exactly when arm-length classification is requested in telomere
\* mode and the coordinate file has no category column; without that
\* request a missing category column causes no failure.  (Calls with an
\* exclusion list.)
C21_CategoryErrorOnlyWhenRequested ==
    (aggPc \in {"written", "returned", "raised"} /\ ~agg_opts.excluded_is_none) =>
        IF /\ agg_opts.on = "telomeres"
           /\ agg_opts.aggregate_by_arm_sizes
           /\ ~has_category(agg_centros)
        THEN aggPc = "raised" /\ agg_error = "ValueError"
        ELSE aggPc # "raised" /\ agg_error = "none"

\* C22: a probe group whose action is neither 'average' nor 'sum' makes no
\* column and leaves the table as it was, and the callers cope with the
\* missing column: rebin_contacts and aggregate complete on a profile built
\* with such a group.
C22_UnknownActionIsHandled ==
    /\ grpPc \in {"profiled", "rebinned", "aggregated"} =>
          \A k \in DOMAIN df_additional :
              df_additional[k].action \notin {"average", "sum"}
                  => df_additional[k].name \notin DOMAIN grp_table
    /\ grpPc # "raised"
    /\ grp_error = "none"


\* The summed counts of the sparse rows that have fragment f at an end.
C23_RowsTouching(f) ==
    SumInts([i \in DOMAIN df_sparse |->
                IF df_sparse[i].frag_a = f \/ df_sparse[i].frag_b = f
                THEN df_sparse[i].contacts ELSE 0])

\* C23: in the unbinned profile every sparse row (A, B, c) adds c exactly
\* once to the column of each probe fragment among its ends -- a row with
\* both ends on probe fragments, A = B included, is not counted twice -- so
\* each probe column sums to the total count of the sparse rows touching
\* its fragment.  (Stated for the runs in which the oligo table's fragment
\* column names the fragments the joins matched, so that a column and the
\* rows of the filtered table are about the same fragment.)
C23_EachRowCountedOnce ==
    (profPc = "profiled" /\ ProbeColumns = C11_ProbeFragments)
        => \A f \in ProbeColumns :
              RSum(column(df_unbinned, f)) = RInt(C23_RowsTouching(f))


\* The length of the part of the fragment row r that lies in the bin
\* [k, k + b) of its chromosome.
C24_Overlap(r, k, b) ==
    LET lo == IF r.start > k THEN r.start ELSE k
        hi == IF r.start + r.sizes < k + b THEN r.start + r.sizes ELSE k + b
    IN IF hi > lo THEN hi - lo ELSE 0

\* C24: a row that crosses a bin edge gives value * (end - end_bin) / size
\* to its end bin, the complement to its start bin and nothing to any other
\* bin, and each share is the fraction of the fragment [start, start + size)
\* that overlaps the bin -- so every cell of the binned contacts table is
\* the sum, over the unbinned rows of the chromosome, of the value times
\* the fraction of the fragment lying in the bin.
C24_SharesAreOverlaps ==
    (profPc = "rebinned" /\ C5_RowsInsideGenome)
        => \A n \in DOMAIN df_binned_contacts, f \in ProbeColumns :
              df_binned_contacts[n].val[f]
                = RSum([i \in DOMAIN df_unbinned |->
                          IF df_unbinned[i].chr = df_binned_contacts[n].chr
                          THEN RMul(df_unbinned[i].val[f],
                                    Rat(C24_Overlap(df_unbinned[i],
                                                    df_binned_contacts[n].chr_bins, rebin_size),
                                        df_unbinned[i].sizes))
                          ELSE RInt(0)])


\* The dashboard passed rebin_live the table rebin_contacts reads: the
\* selected columns of every row of the sample.
C25_SameTable == plot_df = select_columns(df_samples, plot_in.probes_value)

\* C25: the live variant is the batch algorithm -- for the same unbinned
\* table, coordinate table and bin size, rebin_live returns the (chr,
\* chr_bins, genome_bins) rows of rebin_contacts' binned contacts table, in
\* the same order, with the same value in every fragment column it was
\* given.
C25_LiveEqualsBatch ==
    (plotPc = "compared" /\ C25_SameTable)
        => /\ Len(plot_binned) = Len(batch_binned)
           /\ \A n \in DOMAIN plot_binned :
                 /\ plot_binned[n].chr = batch_binned[n].chr
                 /\ plot_binned[n].chr_bins = batch_binned[n].chr_bins
                 /\ plot_binned[n].genome_bins = batch_binned[n].genome_bins
                 /\ \A f \in Range(plot_in.probes_value) :
                       plot_binned[n].val[f] = batch_binned[n].val[f]

\* Both variants run on a whole sample in which a row with contacts
\* crosses a bin edge and is split unevenly between two bins.
C25_Witness ==
    /\ plotPc = "compared"
    /\ C25_SameTable
    /\ \E i \in DOMAIN df_samples, f \in Range(plot_in.probes_value) :
          /\ RPos(df_samples[i].val[f])
          /\ (df_samples[i].start + df_samples[i].sizes) % (plot_in.binning_value * BinUnit) # 0
          /\ df_samples[i].start \div (plot_in.binning_value * BinUnit)
                # (df_samples[i].start + df_samples[i].sizes)
                      \div (plot_in.binning_value * BinUnit)
          /\ \E n, m \in DOMAIN plot_binned :
                /\ n # m
                /\ RPos(plot_binned[n].val[f]) /\ RPos(plot_binned[m].val[f])
                /\ plot_binned[n].val[f] # plot_binned[m].val[f]

\* C26: a plot with no region selected drops no row in the coordinate
\* filter, whatever the lengths and the number of the chromosomes -- the
\* table that is binned or drawn has every row of the sample.
C26_GenomeWideKeepsEveryRow ==
    (plotPc \in {"plotted", "compared"} /\ plot_in.region_value = "")
        => Len(plot_df) = Len(df_samples)


\* C27: chromosome exclusion is optional -- called without an exclusion
\* list (excluded_chr_list at its default None) aggregate completes, with
\* no error.
C27_NoExclusionListCompletes ==
    (aggPc \in {"written", "returned", "raised"} /\ agg_opts.excluded_is_none)
        => (aggPc # "raised" /\ agg_error = "none")


\* C28: for the same command line the legacy driver runs every sample with
\* the same parameter values -- window sizes, excluded chromosomes,
\* exclude_probe_chr and inter_normalization -- in the serial loop
\* (threads <= 1) and through the worker pool (threads > 1).
C28_SerialAndPoolSameParameters ==
    (pool_pc = "joined" /\ serial_idx > Len(drv_samples))
        => serial_calls = pool_calls


\* C29: the binned frequency profile an aggregation stage reads has been
\* written by a rebin stage earlier in the same run, for any list of rebin
\* resolutions and any aggregation bin sizes -- every aggregation stage of
\* the log comes after a rebin of the frequency profile to the file of its
\* resolution (the files are named by the bin size in whole kb).
C29_AggregateReadsWrittenProfile ==
    \A k \in DOMAIN stage_log :
        stage_log[k].stage \in {"aggregate_centromeres", "aggregate_telomeres"}
            => \E j \in 1..(k - 1) :
                  /\ stage_log[j].stage = "rebin_frequencies"
                  /\ stage_log[j].bin \div 1000 = stage_log[k].bin \div 1000


\* C30: within one run every output path is written by one stage
\* invocation only -- two distinct requested resolutions are rebinned to
\* distinct files, and no rebin writes to the path of the unbinned (0 kb)
\* profile, for any list of positive bin sizes.
C30_RebinPathsDistinct ==
    /\ \A j, k \in DOMAIN stage_log :
          (/\ stage_log[j].stage = "rebin_contacts"
           /\ stage_log[k].stage = "rebin_contacts"
           /\ stage_log[j].bin # stage_log[k].bin)
              => bin_suffix(stage_log[j].bin) # bin_suffix(stage_log[k].bin)
    /\ \A k \in DOMAIN stage_log :
          stage_log[k].stage \in {"rebin_contacts", "rebin_frequencies"}
              => bin_suffix(stage_log[k].bin) # profile_0kb_suffix

====
